---- MODULE Spec2Model ----
(***************************************************************************)
(* A model of the concurrent core of chester:                              *)
(*   - async_map_progress (chester/async_utils.py), the bounded            *)
(*     concurrent mapper, as an asyncio state machine: one task per item,  *)
(*     a counting semaphore, and the single consumer of completions;       *)
(*   - the per-candidate fan-out of explain (chester/cli.py);              *)
(*   - chunked and analyse_candidates_modal_batched, the request batcher.  *)
(* asyncio itself is modelled by its documented contract: tasks take their *)
(* first step in creation order, a semaphore is a counter with a FIFO      *)
(* queue of waiters, as_completed hands completions over in completion     *)
(* order, gather returns results in task order.                            *)
(***************************************************************************)
EXTENDS Integers, Sequences, FiniteSets, TLC

\* ------------------------------------------------------------------ bounds
MaxItems == 3     \* longest item collection given to the mapper
NumKeys == 2      \* distinct item keys
MaxConc == 3      \* largest configured concurrency (0 is below the clamp)
NumVals == 2      \* distinct values a worker call can return
NumMoves == 3     \* distinct moves of the analysed position
MaxTop == 3       \* longest list of ranked moves the engine returns
MaxLlmConc == 2   \* largest --llm-concurrency (0 is below the clamp)

NumDupMoves == 2  \* moves a short candidate list may repeat
MaxDupLen == 3    \* longest candidate list with repeats
MaxCands == 4     \* longest list of distinct candidates, with every batch size
MaxBatch == 3     \* largest --modal-batch-size (0 is below the clamp)
LongCands == 10   \* longest list of distinct candidates, with the default size

\* top_moves[:3]
EngineTop == 3

\* --modal-batch-size, default=3
DefaultBatchSize == 3

MaxDepths == 5     \* longest depth series given to the segmenter

\* scores of either sign and zero
CpSmall == {-5, 0, 10}

MaxRanked == 2     \* longest list of ranked moves of one position
MaxMate == 2       \* longest forced mate, in moves, of either sign

\* centipawn scores around the forced gap, of both signs
CpSamples == {-500, -100, 0, 1, 99, 100, 101, 500}

\* abs(cp1 - cp2) >= 100
ForcedGap == 100

\* faulty variant: the mate sentinel is no larger than the forced gap
MATE_CP_small == ForcedGap

\* MATE_CP = 100000
MATE_CP == 100000

MaxRoot == 1       \* root positions are 0..MaxRoot
MaxFens == 2       \* longest list of root positions given to the walker
MaxPv == 5         \* longest principal variation of a root
MaxCap == 2        \* largest cap_moves

MaxPlies == 2      \* longest game, in plies, given to build_rhythm_data
MaxDepth == 2      \* largest depth argument (0 is below the first depth)
MaxWidth == 2      \* largest width argument
MaxPvPlies == 2    \* largest pv_plies argument

\* multipv=2
ForcedMultiPv == 2

\* multipv=max(2, int(width))
MinMultiPv == 2

\* cap_moves=6
RhythmCap == 6

\* _cap(_cp_to_pawns(cp_deep), -6.0, 6.0)
EvalCap == 6

\* float(cp) / 100.0
CpPerPawn == 100

\* min(int(_perplexity_segments(cps)), 6), min(int(dist_white[i]), 6)
SeriesCap == 6

\* the base time of the game's time control, and a clock reading, in seconds
BaseSeconds == 300

ClkSeconds == 30

\* pv_plies=1
ForcedPvPlies == 1

MaxRetries == 3    \* largest retries argument (-1 is below the first attempt)
NumErrs == 2       \* distinct errors a remote call can raise
NumTexts == 2      \* distinct texts a remote call can return

\* base = 0.75 * (2 ** attempt), in hundredths of a second
BackoffBase == 75

\* jitter = random.random() * 0.4, in hundredths of a second: below this
JitterMax == 40

Keys == 1..NumKeys
Vals == 1..NumVals
ConcValues == 0..MaxConc
Moves == 1..NumMoves

\* ------------------------------------------------------------------ helpers
Max(a, b) == IF a >= b THEN a ELSE b

Min(a, b) == IF a <= b THEN a ELSE b

SeqsUpTo(S, n) == UNION {[1..m -> S] : m \in 0..n}

Range(f) == {f[x] : x \in DOMAIN f}

IsDistinct(s) == \A i, j \in DOMAIN s : i # j => s[i] # s[j]

EmptyMap == [k \in {} |-> 0]

\* d[k] = v, as Python's dict item assignment
DictSet(d, k, v) == [x \in (DOMAIN d) \cup {k} |-> IF x = k THEN v ELSE d[x]]

VARIABLES
    \* --- async_map_progress
    items,        \* the item collection, in iteration order
    concurrency,  \* the configured concurrency, before clamping
    quiet,        \* tqdm(disable=quiet)
    mainPc,       \* "init", "awaiting", "returned", "raised"
    semValue,     \* the semaphore's counter
    waiters,      \* tasks waiting for a slot, FIFO
    taskPc,       \* per task: "created", "waiting", "running", "succeeded", "failed", "cancelled"
    callRes,      \* per task: the value its worker call returned (0 before)
    doneQ,        \* completed tasks not yet consumed, in completion order
    out,          \* the result map
    consumed,     \* tasks whose completion the loop has taken, in that order
    pbarN,        \* progress bar count
    pbarClosed,   \* pbar.close() was called
    raiseCause,   \* "none", "worker", "observer"
    raisedBy,     \* the task whose failure was re-raised (0 if none)
    \* --- explain: the per-candidate line explanations
    actual_uci,       \* the move played
    llm_uci,          \* the language model's pick (0: none, or not a legal move)
    top_moves,        \* the engine's ranked moves
    llm_concurrency,  \* args.llm_concurrency, before clamping
    exQuiet,          \* args.quiet
    candidates,       \* list(labels.keys())
    exPc,             \* "init", "awaiting", "done", "raised"
    exSem,            \* the semaphore's counter
    exWaiters,        \* tasks waiting for a slot, FIFO
    exTaskPc,         \* per task: "created", "waiting", "running", "succeeded", "failed"
    exLine,           \* per task: the line_out it returned
    exDoneQ,          \* completed tasks not yet consumed, in completion order
    exConsumed,       \* tasks consumed by the loop, in that order
    results_by_uci,   \* uci -> line_out
    lines_out,        \* the lines handed to the report
    exRaiseCause,     \* "none", "worker", "observer"
    \* --- analyse_candidates_modal_batched
    candidates_uci,   \* the candidate moves, in order
    modal_batch_size, \* the target batch size, before clamping
    illegal,          \* the move analyse_batch skips as not legal (0: none)
    bPc,              \* "init", "gathering", "returned", "raised"
    batches,          \* chunked(candidates_uci, max(1, modal_batch_size))
    batchPc,          \* per batch task: "created", "running", "done", "failed"
    batchRes,         \* per batch task: the "candidates" map its call returned
    remoteCalls,      \* the batches sent to analyse_batch.remote, in dispatch order
    outOfOrder,       \* some call completed while an earlier one was in flight
    merged,           \* the merged map
    \* --- _perplexity_segments
    cps_by_depth,     \* the scores of one position, shallow to deep
    pxPc,             \* "init", "done"
    pxSegments,       \* the returned segment count (0 before)
    \* --- scores and the forced classification of one position
    sc_top_moves,     \* the ranked moves of the position, best first
    scPc,             \* "init", "converted", "restored"
    sc_cps,           \* the signed integer of each ranked move's score
    sc_back,          \* the score rebuilt from each signed integer
    scClassified,     \* _is_forced_from_topmoves has been applied
    scForced,         \* its result
    \* --- _dist_to_forced_for_color
    fens,             \* the root positions, in game order
    best_pv_at_fen,   \* root -> its principal variation at the deepest depth
    color,            \* the target side
    cap_moves,        \* the cap on the target side's moves
    walkPc,           \* "init", "awaiting", "returned"
    pv_fens_by_root,  \* root -> the positions along its replayed variation
    pv_all,           \* the distinct positions sent to the oracle
    oracle_requests,  \* the requests made to the oracle, in order
    forced_pv,        \* position -> its forced classification
    dists,            \* the returned distances
    \* --- build_rhythm_data
    rh_start,         \* the game's starting position (0: White to move, 1: Black)
    nplies,           \* len(moves)
    rh_depth,         \* the depth argument
    rh_width,         \* the width argument
    rh_pv_plies,      \* the pv_plies argument
    rh_tc,            \* the TimeControl header parses
    rh_clk,           \* per ply: the clock reading on its node, if any
    rhPc,             \* "init", "analysing", "walk_white", "walk_black", "returned"
    rh_fens,          \* _fens_before_each_ply(game)
    depths,           \* the depths analysed, in order
    w_clocks,         \* White's clock by ply
    b_clocks,         \* Black's clock by ply
    by_depth,         \* depth -> the oracle's answer at that depth
    best_cp_by_fen,   \* position -> its best score at every depth
    rh_best_pv,       \* position -> its principal variation at the deepest depth
    rh_requests,      \* the requests made to the oracle, in order
    forced_nodata,    \* per walker call: the positions its answer had no data for
    dist_white,       \* the walker's distances for White
    dist_black,       \* the walker's distances for Black
    series,           \* the emitted series
    \* --- gemini_text
    retries,          \* the retries argument
    gemPc,            \* "init", "calling", "sleeping", "returned", "raised"
    attempt,          \* the loop variable
    gem_trace,        \* "call", "ok", "fail" and "sleep" events, in order
    gem_errs,         \* the errors of the failed attempts, in order
    gem_sleeps,       \* the sleeps made, in hundredths of a second
    last_err,         \* last_err
    gem_result,       \* the returned text (0 before)
    gem_raised        \* the raised error

mapVars == <<items, concurrency, quiet, mainPc, semValue, waiters, taskPc, callRes,
             doneQ, out, consumed, pbarN, pbarClosed, raiseCause, raisedBy>>

exVars == <<actual_uci, llm_uci, top_moves, llm_concurrency, exQuiet, candidates, exPc,
            exSem, exWaiters, exTaskPc, exLine, exDoneQ, exConsumed, results_by_uci,
            lines_out, exRaiseCause>>

batchVars == <<candidates_uci, modal_batch_size, illegal, bPc, batches, batchPc, batchRes,
               remoteCalls, outOfOrder, merged>>

pxVars == <<cps_by_depth, pxPc, pxSegments>>

scVars == <<sc_top_moves, scPc, sc_cps, sc_back, scClassified, scForced>>

walkVars == <<fens, best_pv_at_fen, color, cap_moves, walkPc, pv_fens_by_root, pv_all,
              oracle_requests, forced_pv, dists>>

rhVars == <<rh_start, nplies, rh_depth, rh_width, rh_pv_plies, rh_tc, rh_clk, rhPc, rh_fens,
            depths, w_clocks, b_clocks, by_depth, best_cp_by_fen, rh_best_pv, rh_requests,
            forced_nodata, dist_white, dist_black, series>>

gemVars == <<retries, gemPc, attempt, gem_trace, gem_errs, gem_sleeps, last_err, gem_result,
             gem_raised>>

vars == <<mapVars, exVars, batchVars, pxVars, scVars, walkVars, rhVars, gemVars>>

notMapVars == <<exVars, batchVars, pxVars, scVars, walkVars, rhVars, gemVars>>

notExVars == <<mapVars, batchVars, pxVars, scVars, walkVars, rhVars, gemVars>>

notBatchVars == <<mapVars, exVars, pxVars, scVars, walkVars, rhVars, gemVars>>

notPxVars == <<mapVars, exVars, batchVars, scVars, walkVars, rhVars, gemVars>>

notScVars == <<mapVars, exVars, batchVars, pxVars, walkVars, rhVars, gemVars>>

notWalkVars == <<mapVars, exVars, batchVars, pxVars, scVars, rhVars, gemVars>>

notRhVars == <<mapVars, exVars, batchVars, pxVars, scVars, walkVars, gemVars>>

notGemVars == <<mapVars, exVars, batchVars, pxVars, scVars, walkVars, rhVars>>

\* ------------------------------------------------------- async_map_progress
Tasks == DOMAIN taskPc

Running == {t \in Tasks : taskPc[t] = "running"}

Pending == {t \in Tasks : taskPc[t] \in {"created", "waiting", "running"}}

\* faulty variant: a concurrency below 1 is taken as it is
SemInitUnclamped(c) == c

\* Semaphore(max(1, int(concurrency)))
SemInit(c) == Max(1, c)

\* faulty variant: the semaphore never blocks
LockedNever == FALSE

\* asyncio.Semaphore.locked(): no free slot, or somebody is already queued
Locked == semValue = 0 \/ waiters # <<>>

\* faulty variant: the slot is not given back on exit
ReleaseLeak(s) == s

\* the exit of `async with sem`
Release(s) == s + 1

InitMap ==
    /\ items \in SeqsUpTo(Keys, MaxItems)
    /\ concurrency \in ConcValues
    /\ quiet \in BOOLEAN
    /\ mainPc = "init"
    /\ semValue = 0
    /\ waiters = <<>>
    /\ taskPc = <<>>
    /\ callRes = <<>>
    /\ doneQ = <<>>
    /\ out = EmptyMap
    /\ consumed = <<>>
    /\ pbarN = 0
    /\ pbarClosed = FALSE
    /\ raiseCause = "none"
    /\ raisedBy = 0

\* idle values of the mapper's state
IdleMap ==
    /\ items = <<>>
    /\ concurrency = 1
    /\ quiet = TRUE
    /\ mainPc = "idle"
    /\ semValue = 0
    /\ waiters = <<>>
    /\ taskPc = <<>>
    /\ callRes = <<>>
    /\ doneQ = <<>>
    /\ out = EmptyMap
    /\ consumed = <<>>
    /\ pbarN = 0
    /\ pbarClosed = FALSE
    /\ raiseCause = "none"
    /\ raisedBy = 0

\* Lines 25-34: the semaphore, one task per item, the empty map, the bar.
\* With no item the loop body never runs and the call returns at once.
Call ==
    /\ UNCHANGED notMapVars
    /\ mainPc = "init"
    /\ semValue' = SemInit(concurrency)
    /\ taskPc' = [t \in 1..Len(items) |-> "created"]
    /\ callRes' = [t \in 1..Len(items) |-> 0]
    /\ out' = EmptyMap
    /\ mainPc' = IF Len(items) = 0 THEN "returned" ELSE "awaiting"
    /\ pbarClosed' = (Len(items) = 0)
    /\ UNCHANGED <<items, concurrency, quiet, waiters, doneQ, consumed, pbarN,
                   raiseCause, raisedBy>>

\* The first step of _run_one: `async with sem` either takes a slot and
\* calls the worker, or queues. Tasks take their first step in creation order.
Start(t) ==
    /\ UNCHANGED notMapVars
    /\ taskPc[t] = "created"
    /\ \A u \in 1..(t - 1) : taskPc[u] # "created"
    /\ IF ~Locked
       THEN /\ semValue' = semValue - 1
            /\ taskPc' = [taskPc EXCEPT ![t] = "running"]
            /\ UNCHANGED waiters
       ELSE /\ waiters' = Append(waiters, t)
            /\ taskPc' = [taskPc EXCEPT ![t] = "waiting"]
            /\ UNCHANGED semValue
    /\ UNCHANGED <<items, concurrency, quiet, mainPc, callRes, doneQ, out,
                   consumed, pbarN, pbarClosed, raiseCause, raisedBy>>

\* The first waiter gets the slot a release freed and calls the worker.
Resume(t) ==
    /\ UNCHANGED notMapVars
    /\ waiters # <<>>
    /\ t = Head(waiters)
    /\ taskPc[t] = "waiting"
    /\ semValue > 0
    /\ semValue' = semValue - 1
    /\ waiters' = Tail(waiters)
    /\ taskPc' = [taskPc EXCEPT ![t] = "running"]
    /\ UNCHANGED <<items, concurrency, quiet, mainPc, callRes, doneQ, out,
                   consumed, pbarN, pbarClosed, raiseCause, raisedBy>>

\* faulty variant: the worker's task stores its result in the map itself
WorkerReturnWrites(t, v) ==
    /\ UNCHANGED notMapVars
    /\ taskPc[t] = "running"
    /\ taskPc' = [taskPc EXCEPT ![t] = "succeeded"]
    /\ callRes' = [callRes EXCEPT ![t] = v]
    /\ semValue' = Release(semValue)
    /\ doneQ' = Append(doneQ, t)
    /\ out' = DictSet(out, items[t], v)
    /\ UNCHANGED <<items, concurrency, quiet, mainPc, waiters,
                   consumed, pbarN, pbarClosed, raiseCause, raisedBy>>

\* worker(it) returns v: the slot is released, the task is done with (it, v).
WorkerReturn(t, v) ==
    /\ UNCHANGED notMapVars
    /\ taskPc[t] = "running"
    /\ taskPc' = [taskPc EXCEPT ![t] = "succeeded"]
    /\ callRes' = [callRes EXCEPT ![t] = v]
    /\ semValue' = Release(semValue)
    /\ doneQ' = Append(doneQ, t)
    /\ UNCHANGED <<items, concurrency, quiet, mainPc, waiters, out,
                   consumed, pbarN, pbarClosed, raiseCause, raisedBy>>

\* worker(it) raises: the slot is released, the task is done with the exception.
WorkerRaise(t) ==
    /\ UNCHANGED notMapVars
    /\ taskPc[t] = "running"
    /\ taskPc' = [taskPc EXCEPT ![t] = "failed"]
    /\ semValue' = Release(semValue)
    /\ doneQ' = Append(doneQ, t)
    /\ UNCHANGED <<items, concurrency, quiet, mainPc, waiters, callRes, out,
                   consumed, pbarN, pbarClosed, raiseCause, raisedBy>>

\* faulty variant: the exception of a failed task is swallowed
AwaitFutSwallow(t) == "value"

\* `await fut` on a completed task: its value, or its exception re-raised
AwaitFut(t) == IF taskPc[t] = "failed" THEN "raise" ELSE "value"

\* faulty variant: the map is rebuilt at every completion
StoreResultOnly(d, k, v) == [x \in {k} |-> v]

\* out[k] = v
StoreResult(d, k, v) == DictSet(d, k, v)

\* faulty variant: a key already in the map keeps its first value
ConsumeKeepsFirst(obsFails) ==
    /\ UNCHANGED notMapVars
    /\ mainPc = "awaiting"
    /\ doneQ # <<>>
    /\ \A u \in Tasks : taskPc[u] # "created"
    /\ obsFails => ~quiet
    /\ LET t == Head(doneQ) IN
       /\ doneQ' = Tail(doneQ)
       /\ consumed' = Append(consumed, t)
       /\ IF AwaitFut(t) = "raise"
          THEN /\ mainPc' = "raised"
               /\ raiseCause' = "worker"
               /\ raisedBy' = t
               /\ pbarClosed' = TRUE
               /\ UNCHANGED <<out, pbarN>>
          ELSE /\ out' = IF items[t] \in DOMAIN out
                         THEN out
                         ELSE StoreResult(out, items[t], callRes[t])
               /\ IF obsFails
                  THEN /\ mainPc' = "raised"
                       /\ raiseCause' = "observer"
                       /\ pbarClosed' = TRUE
                       /\ UNCHANGED <<pbarN, raisedBy>>
                  ELSE /\ pbarN' = pbarN + 1
                       /\ mainPc' = IF Len(consumed) + 1 = Len(items)
                                    THEN "returned" ELSE "awaiting"
                       /\ pbarClosed' = (Len(consumed) + 1 = Len(items))
                       /\ UNCHANGED <<raiseCause, raisedBy>>
    /\ UNCHANGED <<items, concurrency, quiet, semValue, waiters, taskPc, callRes>>

\* One iteration of the loop over as_completed: `await fut` re-raises the
\* exception of a failed task (the finally closes the bar); otherwise the
\* result is stored and the bar updated. An exception of pbar.update is not
\* caught either. After the last completion the bar is closed and out returned.
\* Every task has taken its first step before the consumer is resumed.
Consume(obsFails) ==
    /\ UNCHANGED notMapVars
    /\ mainPc = "awaiting"
    /\ doneQ # <<>>
    /\ \A u \in Tasks : taskPc[u] # "created"
    /\ obsFails => ~quiet
    /\ LET t == Head(doneQ) IN
       /\ doneQ' = Tail(doneQ)
       /\ consumed' = Append(consumed, t)
       /\ IF AwaitFut(t) = "raise"
          THEN /\ mainPc' = "raised"
               /\ raiseCause' = "worker"
               /\ raisedBy' = t
               /\ pbarClosed' = TRUE
               /\ UNCHANGED <<out, pbarN>>
          ELSE /\ out' = StoreResult(out, items[t], callRes[t])
               /\ IF obsFails
                  THEN /\ mainPc' = "raised"
                       /\ raiseCause' = "observer"
                       /\ pbarClosed' = TRUE
                       /\ UNCHANGED <<pbarN, raisedBy>>
                  ELSE /\ pbarN' = pbarN + 1
                       /\ mainPc' = IF Len(consumed) + 1 = Len(items)
                                    THEN "returned" ELSE "awaiting"
                       /\ pbarClosed' = (Len(consumed) + 1 = Len(items))
                       /\ UNCHANGED <<raiseCause, raisedBy>>
    /\ UNCHANGED <<items, concurrency, quiet, semValue, waiters, taskPc, callRes>>

\* The event loop shuts down after the call has raised (asyncio.run cancels
\* what is left): a waiting task leaves the queue without a slot, and a
\* running one leaves `async with sem` through CancelledError, releasing it.
CancelPending ==
    /\ UNCHANGED notMapVars
    /\ mainPc = "raised"
    /\ Pending # {}
    /\ taskPc' = [t \in Tasks |-> IF t \in Pending THEN "cancelled" ELSE taskPc[t]]
    /\ semValue' = semValue + Cardinality(Running)
    /\ waiters' = <<>>
    /\ UNCHANGED <<items, concurrency, quiet, mainPc, callRes, doneQ, out,
                   consumed, pbarN, pbarClosed, raiseCause, raisedBy>>

NextMap ==
    \/ Call
    \/ \E t \in Tasks : Start(t)
    \/ \E t \in Tasks : Resume(t)
    \/ \E t \in Tasks, v \in Vals : WorkerReturn(t, v)
    \/ \E t \in Tasks : WorkerRaise(t)
    \/ \E f \in BOOLEAN : Consume(f)
    \/ CancelPending

\* ------------------------------------------------ explain (chester/cli.py)
\* idle values of explain's state
IdleEx ==
    /\ actual_uci = 1
    /\ llm_uci = 0
    /\ top_moves = <<>>
    /\ llm_concurrency = 1
    /\ exQuiet = TRUE
    /\ candidates = <<>>
    /\ exPc = "idle"
    /\ exSem = 0
    /\ exWaiters = <<>>
    /\ exTaskPc = <<>>
    /\ exLine = <<>>
    /\ exDoneQ = <<>>
    /\ exConsumed = <<>>
    /\ results_by_uci = EmptyMap
    /\ lines_out = <<>>
    /\ exRaiseCause = "none"

\* the engine's ranked moves are pairwise distinct
TopMovesInputs == {s \in SeqsUpTo(Moves, MaxTop) : IsDistinct(s)}

\* labels.setdefault(k, set()): a new key goes to the end, a known one stays
SetDefault(keys, k) == IF k \in Range(keys) THEN keys ELSE Append(keys, k)

\* top_moves[:3]
TopSlice(tm) == SubSeq(tm, 1, Min(EngineTop, Len(tm)))

RECURSIVE AddAll(_, _)
AddAll(keys, ms) ==
    IF ms = <<>> THEN keys ELSE AddAll(SetDefault(keys, Head(ms)), Tail(ms))

\* lines 109-117: the actual move, the model's pick when it is a legal move,
\* then the engine's first three moves; candidates = list(labels.keys())
CandidateKeys(a, l, tm) ==
    LET k1 == SetDefault(<<>>, a)
        k2 == IF l # 0 THEN SetDefault(k1, l) ELSE k1
    IN  AddAll(k2, TopSlice(tm))

ExTasks == DOMAIN exTaskPc

ExRunning == {t \in ExTasks : exTaskPc[t] = "running"}

ExLocked == exSem = 0 \/ exWaiters # <<>>

InitEx ==
    /\ actual_uci \in Moves
    /\ llm_uci \in {0} \cup Moves
    /\ top_moves \in TopMovesInputs
    /\ llm_concurrency \in 0..MaxLlmConc
    /\ exQuiet \in BOOLEAN
    /\ candidates = <<>>
    /\ exPc = "init"
    /\ exSem = 0
    /\ exWaiters = <<>>
    /\ exTaskPc = <<>>
    /\ exLine = <<>>
    /\ exDoneQ = <<>>
    /\ exConsumed = <<>>
    /\ results_by_uci = EmptyMap
    /\ lines_out = <<>>
    /\ exRaiseCause = "none"

\* lines 109-117 and 133-237: the candidates, the semaphore, one task each
ExCall ==
    /\ exPc = "init"
    /\ LET c == CandidateKeys(actual_uci, llm_uci, top_moves) IN
       /\ candidates' = c
       /\ exTaskPc' = [t \in 1..Len(c) |-> "created"]
       /\ exLine' = [t \in 1..Len(c) |-> [move_uci |-> 0, error |-> FALSE]]
    /\ exSem' = Max(1, llm_concurrency)
    /\ results_by_uci' = EmptyMap
    /\ exPc' = "awaiting"
    /\ UNCHANGED <<actual_uci, llm_uci, top_moves, llm_concurrency, exQuiet, exWaiters,
                   exDoneQ, exConsumed, lines_out, exRaiseCause>>
    /\ UNCHANGED notExVars

\* the first step of explain_one_line: `async with sem`
ExStart(t) ==
    /\ exTaskPc[t] = "created"
    /\ \A u \in 1..(t - 1) : exTaskPc[u] # "created"
    /\ IF ~ExLocked
       THEN /\ exSem' = exSem - 1
            /\ exTaskPc' = [exTaskPc EXCEPT ![t] = "running"]
            /\ UNCHANGED exWaiters
       ELSE /\ exWaiters' = Append(exWaiters, t)
            /\ exTaskPc' = [exTaskPc EXCEPT ![t] = "waiting"]
            /\ UNCHANGED exSem
    /\ UNCHANGED <<actual_uci, llm_uci, top_moves, llm_concurrency, exQuiet, candidates,
                   exPc, exLine, exDoneQ, exConsumed, results_by_uci, lines_out,
                   exRaiseCause>>
    /\ UNCHANGED notExVars

ExResume(t) ==
    /\ exWaiters # <<>>
    /\ t = Head(exWaiters)
    /\ exTaskPc[t] = "waiting"
    /\ exSem > 0
    /\ exSem' = exSem - 1
    /\ exWaiters' = Tail(exWaiters)
    /\ exTaskPc' = [exTaskPc EXCEPT ![t] = "running"]
    /\ UNCHANGED <<actual_uci, llm_uci, top_moves, llm_concurrency, exQuiet, candidates,
                   exPc, exLine, exDoneQ, exConsumed, results_by_uci, lines_out,
                   exRaiseCause>>
    /\ UNCHANGED notExVars

\* lines 138-204: the try body runs through and returns (uci, line_out)
ExLineOk(t) ==
    /\ exTaskPc[t] = "running"
    /\ exTaskPc' = [exTaskPc EXCEPT ![t] = "succeeded"]
    /\ exLine' = [exLine EXCEPT ![t] = [move_uci |-> candidates[t], error |-> FALSE]]
    /\ exSem' = exSem + 1
    /\ exDoneQ' = Append(exDoneQ, t)
    /\ UNCHANGED <<actual_uci, llm_uci, top_moves, llm_concurrency, exQuiet, candidates,
                   exPc, exWaiters, exConsumed, results_by_uci, lines_out, exRaiseCause>>
    /\ UNCHANGED notExVars

\* faulty variant: no except clause around the unit of work
ExceptClauseMissing == "propagates"

\* line 205, `except Exception as ex`: the exception is captured
ExceptClause == "captured"

\* lines 205-232: something in the try body raises (a missing cand_data entry,
\* a bad move, the text-generation call); the except clause returns
\* (uci, line_out) with an "error" entry instead
ExLineFails(t) ==
    /\ exTaskPc[t] = "running"
    /\ IF ExceptClause = "captured"
       THEN /\ exTaskPc' = [exTaskPc EXCEPT ![t] = "succeeded"]
            /\ exLine' = [exLine EXCEPT ![t] = [move_uci |-> candidates[t], error |-> TRUE]]
       ELSE /\ exTaskPc' = [exTaskPc EXCEPT ![t] = "failed"]
            /\ UNCHANGED exLine
    /\ exSem' = exSem + 1
    /\ exDoneQ' = Append(exDoneQ, t)
    /\ UNCHANGED <<actual_uci, llm_uci, top_moves, llm_concurrency, exQuiet, candidates,
                   exPc, exWaiters, exConsumed, results_by_uci, lines_out, exRaiseCause>>
    /\ UNCHANGED notExVars

\* faulty variant: the lines are collected from the last candidate to the first
LinesReversed(cands, byUci) ==
    LET known == SelectSeq(cands, LAMBDA c : c \in DOMAIN byUci)
    IN  [i \in 1..Len(known) |-> byUci[known[Len(known) + 1 - i]]]

\* lines 247-249: the lines in candidate order
LinesInOrder(cands, byUci) ==
    LET RECURSIVE Go(_)
        Go(i) == IF i > Len(cands) THEN <<>>
                 ELSE (IF cands[i] \in DOMAIN byUci THEN <<byUci[cands[i]]>> ELSE <<>>)
                      \o Go(i + 1)
    IN  Go(1)

\* lines 239-249: one iteration of the loop over as_completed; after the
\* last one the bar is closed and lines_out built. Neither `await fut` nor
\* pbar.update is guarded here.
ExConsume(obsFails) ==
    /\ exPc = "awaiting"
    /\ exDoneQ # <<>>
    /\ \A u \in ExTasks : exTaskPc[u] # "created"
    /\ obsFails => ~exQuiet
    /\ LET t == Head(exDoneQ)
           r == DictSet(results_by_uci, exLine[t].move_uci, exLine[t])
       IN
       /\ exDoneQ' = Tail(exDoneQ)
       /\ exConsumed' = Append(exConsumed, t)
       /\ IF exTaskPc[t] = "failed"
          THEN /\ exPc' = "raised"
               /\ exRaiseCause' = "worker"
               /\ UNCHANGED <<results_by_uci, lines_out>>
          ELSE /\ results_by_uci' = r
               /\ IF obsFails
                  THEN /\ exPc' = "raised"
                       /\ exRaiseCause' = "observer"
                       /\ UNCHANGED lines_out
                  ELSE /\ UNCHANGED exRaiseCause
                       /\ IF Len(exConsumed) + 1 = Len(candidates)
                          THEN /\ exPc' = "done"
                               /\ lines_out' = LinesInOrder(candidates, r)
                          ELSE /\ exPc' = "awaiting"
                               /\ UNCHANGED lines_out
    /\ UNCHANGED <<actual_uci, llm_uci, top_moves, llm_concurrency, exQuiet, candidates,
                   exSem, exWaiters, exTaskPc, exLine>>
    /\ UNCHANGED notExVars

NextEx ==
    \/ ExCall
    \/ \E t \in ExTasks : ExStart(t)
    \/ \E t \in ExTasks : ExResume(t)
    \/ \E t \in ExTasks : ExLineOk(t)
    \/ \E t \in ExTasks : ExLineFails(t)
    \/ \E f \in BOOLEAN : ExConsume(f)


\* ------------------------------- request batcher (chester/modal_client.py)
IdleBatch ==
    /\ candidates_uci = <<>>
    /\ modal_batch_size = 1
    /\ illegal = 0
    /\ bPc = "idle"
    /\ batches = <<>>
    /\ batchPc = <<>>
    /\ batchRes = <<>>
    /\ remoteCalls = <<>>
    /\ outOfOrder = FALSE
    /\ merged = EmptyMap

\* <<1, ..., m>>
Iota(m) == [i \in 1..m |-> i]

\* Candidate lists: short ones that may repeat a move, and lists of distinct
\* moves, with every batch size; and the long list with the default size.
BatchInputs ==
    ((SeqsUpTo(1..NumDupMoves, MaxDupLen) \cup {Iota(m) : m \in 0..MaxCands})
        \X (0..MaxBatch))
    \cup ({Iota(m) : m \in 0..LongCands} \X {DefaultBatchSize})

\* faulty variant: a trailing partial chunk is dropped
RECURSIVE chunkedFullOnly(_, _)
chunkedFullOnly(xs, n) ==
    IF Len(xs) < n THEN <<>>
    ELSE <<SubSeq(xs, 1, n)>> \o chunkedFullOnly(SubSeq(xs, n + 1, Len(xs)), n)

\* range(0, len(xs), n), from i on
RECURSIVE RangeFrom(_, _, _)
RangeFrom(i, stop, step) ==
    IF i >= stop THEN <<>> ELSE <<i>> \o RangeFrom(i + step, stop, step)

\* [xs[i : i + n] for i in range(0, len(xs), n)]
chunked(xs, n) ==
    LET starts == RangeFrom(0, Len(xs), n)
    IN  [j \in 1..Len(starts) |-> SubSeq(xs, starts[j] + 1, Min(starts[j] + n, Len(xs)))]

\* analyse_batch: an entry for every move of the batch that is a legal move,
\* holding what this call computed for it
analyse_batch(b, batch) ==
    [m \in Range(batch) \ {illegal} |-> [call |-> b, move |-> m]]

\* faulty variant: the merged map is replaced instead of updated
DictReplace(d, r) == r

\* merged.update(r)
DictUpdate(d, r) ==
    [k \in (DOMAIN d) \cup (DOMAIN r) |-> IF k \in DOMAIN r THEN r[k] ELSE d[k]]

\* for t in <gathered results, in task order>: merged.update(t.get("candidates", {}))
RECURSIVE MergeAll(_, _, _)
MergeAll(d, res, i) ==
    IF i > Len(res) THEN d ELSE MergeAll(DictUpdate(d, res[i]), res, i + 1)

BatchTasks == DOMAIN batchPc

InitBatch ==
    /\ \E p \in BatchInputs : candidates_uci = p[1] /\ modal_batch_size = p[2]
    /\ illegal \in 0..NumDupMoves
    /\ bPc = "init"
    /\ batches = <<>>
    /\ batchPc = <<>>
    /\ batchRes = <<>>
    /\ remoteCalls = <<>>
    /\ outOfOrder = FALSE
    /\ merged = EmptyMap

\* lines 42-60: the batches, the empty map, one task per batch; gather of no
\* task is complete at once
BatchCall ==
    /\ bPc = "init"
    /\ LET bs == chunked(candidates_uci, Max(1, modal_batch_size)) IN
       /\ batches' = bs
       /\ batchPc' = [b \in 1..Len(bs) |-> "created"]
       /\ batchRes' = [b \in 1..Len(bs) |-> EmptyMap]
       /\ bPc' = IF Len(bs) = 0 THEN "returned" ELSE "gathering"
    /\ merged' = EmptyMap
    /\ UNCHANGED <<candidates_uci, modal_batch_size, illegal, remoteCalls, outOfOrder>>
    /\ UNCHANGED notBatchVars

\* lines 44-53: run_one hands its batch to analyse_batch.remote in a thread;
\* the tasks take this first step in creation order
RunOne(b) ==
    /\ batchPc[b] = "created"
    /\ \A u \in 1..(b - 1) : batchPc[u] # "created"
    /\ batchPc' = [batchPc EXCEPT ![b] = "running"]
    /\ remoteCalls' = Append(remoteCalls, batches[b])
    /\ UNCHANGED <<candidates_uci, modal_batch_size, illegal, bPc, batches, batchRes,
                   outOfOrder, merged>>
    /\ UNCHANGED notBatchVars

\* the remote call of batch b returns
RemoteReturn(b) ==
    /\ batchPc[b] = "running"
    /\ batchPc' = [batchPc EXCEPT ![b] = "done"]
    /\ batchRes' = [batchRes EXCEPT ![b] = analyse_batch(b, batches[b])]
    /\ outOfOrder' = (outOfOrder \/ \E u \in 1..(b - 1) : batchPc[u] = "running")
    /\ UNCHANGED <<candidates_uci, modal_batch_size, illegal, bPc, batches,
                   remoteCalls, merged>>
    /\ UNCHANGED notBatchVars

\* the remote call of batch b raises
RemoteFail(b) ==
    /\ batchPc[b] = "running"
    /\ batchPc' = [batchPc EXCEPT ![b] = "failed"]
    /\ UNCHANGED <<candidates_uci, modal_batch_size, illegal, bPc, batches, batchRes,
                   remoteCalls, outOfOrder, merged>>
    /\ UNCHANGED notBatchVars

\* lines 60-63: gather has every result, in task order; they are merged one
\* after the other and the map is returned
GatherReturn ==
    /\ bPc = "gathering"
    /\ \A b \in BatchTasks : batchPc[b] = "done"
    /\ merged' = MergeAll(merged, batchRes, 1)
    /\ bPc' = "returned"
    /\ UNCHANGED <<candidates_uci, modal_batch_size, illegal, batches, batchPc, batchRes,
                   remoteCalls, outOfOrder>>
    /\ UNCHANGED notBatchVars

\* line 60: gather re-raises the exception of a task; nothing is merged
GatherRaise ==
    /\ bPc = "gathering"
    /\ \A b \in BatchTasks : batchPc[b] # "created"
    /\ \E b \in BatchTasks : batchPc[b] = "failed"
    /\ bPc' = "raised"
    /\ UNCHANGED <<candidates_uci, modal_batch_size, illegal, batches, batchPc, batchRes,
                   remoteCalls, outOfOrder, merged>>
    /\ UNCHANGED notBatchVars

NextBatch ==
    \/ BatchCall
    \/ \E b \in BatchTasks : RunOne(b)
    \/ \E b \in BatchTasks : RemoteReturn(b)
    \/ \E b \in BatchTasks : RemoteFail(b)
    \/ GatherReturn
    \/ GatherRaise

\* ------------------------- perplexity (chester/rhythm_pipeline.py, 38-74)
IdlePx ==
    /\ cps_by_depth = <<>>
    /\ pxPc = "idle"
    /\ pxSegments = 0

\* faulty variant: the sign of a negative score is lost
sign_bucket_abs(cp) == IF cp # 0 THEN 1 ELSE 0

\* _sign_bucket
sign_bucket(cp) == IF cp > 0 THEN 1 ELSE IF cp < 0 THEN -1 ELSE 0

\* lines 54-61: carry the last non-zero sign forward across zeros
RECURSIVE CarryFrom(_, _, _)
CarryFrom(signs, i, last) ==
    IF i > Len(signs) THEN <<>>
    ELSE IF signs[i] = 0 THEN <<last>> \o CarryFrom(signs, i + 1, last)
         ELSE <<signs[i]>> \o CarryFrom(signs, i + 1, signs[i])

\* lines 66-73: seg counts the non-zero entries that differ from the previous
\* non-zero one; hasPrev is `prev is not None`
RECURSIVE SegFrom(_, _, _, _, _)
SegFrom(norm, i, hasPrev, prev, seg) ==
    IF i > Len(norm) THEN seg
    ELSE IF norm[i] = 0 THEN SegFrom(norm, i + 1, hasPrev, prev, seg)
         ELSE IF ~hasPrev \/ norm[i] # prev
              THEN SegFrom(norm, i + 1, TRUE, norm[i], seg + 1)
              ELSE SegFrom(norm, i + 1, hasPrev, prev, seg)

\* _perplexity_segments
perplexity_segments(cps) ==
    LET signs == [i \in 1..Len(cps) |-> sign_bucket(cps[i])]
        norm == CarryFrom(signs, 1, 0)
    IN  IF \A i \in 1..Len(norm) : norm[i] = 0
        THEN 1
        ELSE Max(1, SegFrom(norm, 1, FALSE, 0, 0))

InitPx ==
    /\ cps_by_depth \in SeqsUpTo(CpSmall, MaxDepths)
    /\ pxPc = "init"
    /\ pxSegments = 0

PerplexityCall ==
    /\ pxPc = "init"
    /\ pxSegments' = perplexity_segments(cps_by_depth)
    /\ pxPc' = "done"
    /\ UNCHANGED cps_by_depth
    /\ UNCHANGED notPxVars

NextPx == PerplexityCall

\* ------- scores and forced positions (chester/rhythm_pipeline.py, 12-23, 77-82)
IdleSc ==
    /\ sc_top_moves = <<>>
    /\ scPc = "idle"
    /\ sc_cps = <<>>
    /\ sc_back = <<>>
    /\ scClassified = FALSE
    /\ scForced = FALSE

\* A score record as the engine side builds it: {"type": "cp", "cp": v} or
\* {"type": "mate", "mate": m}; NoScore is a missing or empty one.
CpScore(v) == [type |-> "cp", val |-> v]

MateScore(m) == [type |-> "mate", val |-> m]

NoScore == [type |-> "none", val |-> 0]

Scores == {CpScore(v) : v \in CpSamples} \cup {MateScore(m) : m \in (-MaxMate)..MaxMate}
          \cup {NoScore}

Abs(x) == IF x < 0 THEN -x ELSE x

\* faulty variant: a mate score is converted like a centipawn score
score_to_cp_plain(score) == score.val

\* _score_to_cp
score_to_cp(score) ==
    IF score.type = "none" THEN 0
    ELSE IF score.type = "mate"
         THEN IF score.val = 0 THEN MATE_CP
              ELSE IF score.val > 0 THEN MATE_CP ELSE -MATE_CP
         ELSE score.val

\* The way back from the signed integer: the sentinel magnitude is a forced
\* mate of that sign (its distance is not kept), anything else a centipawn score.
cp_to_score(x) ==
    IF x >= MATE_CP THEN MateScore(1)
    ELSE IF x <= -MATE_CP THEN MateScore(-1)
         ELSE CpScore(x)

\* faulty variant: the gap is taken without its absolute value
is_forced_signed(tms) ==
    IF Len(tms) < 2 THEN FALSE
    ELSE score_to_cp(tms[1].score) - score_to_cp(tms[2].score) >= ForcedGap

\* _is_forced_from_topmoves
is_forced_from_topmoves(tms) ==
    IF Len(tms) < 2 THEN FALSE
    ELSE Abs(score_to_cp(tms[1].score) - score_to_cp(tms[2].score)) >= ForcedGap

RankedMove(sc) == [score |-> sc, pv_uci |-> <<>>]

InitSc ==
    /\ sc_top_moves \in SeqsUpTo({RankedMove(sc) : sc \in Scores}, MaxRanked)
    /\ scPc = "init"
    /\ sc_cps = <<>>
    /\ sc_back = <<>>
    /\ scClassified = FALSE
    /\ scForced = FALSE

\* every ranked move's score as one signed integer
ScoreToCp ==
    /\ scPc = "init"
    /\ sc_cps' = [i \in 1..Len(sc_top_moves) |-> score_to_cp(sc_top_moves[i].score)]
    /\ scPc' = "converted"
    /\ UNCHANGED <<sc_top_moves, sc_back, scClassified, scForced>>
    /\ UNCHANGED notScVars

\* and back to a score
CpToScore ==
    /\ scPc = "converted"
    /\ sc_back' = [i \in 1..Len(sc_cps) |-> cp_to_score(sc_cps[i])]
    /\ scPc' = "restored"
    /\ UNCHANGED <<sc_top_moves, sc_cps, scClassified, scForced>>
    /\ UNCHANGED notScVars

IsForcedCall ==
    /\ scPc # "idle"
    /\ ~scClassified
    /\ scForced' = is_forced_from_topmoves(sc_top_moves)
    /\ scClassified' = TRUE
    /\ UNCHANGED <<sc_top_moves, scPc, sc_cps, sc_back>>
    /\ UNCHANGED notScVars

NextSc ==
    \/ ScoreToCp
    \/ CpToScore
    \/ IsForcedCall

\* ------ forced-frontier walker (chester/rhythm_pipeline.py, 101-179)
\* A position is a natural number: White is to move at an even one, and the
\* legal move of a principal variation leads from p to p + 1, so the lines of
\* two roots can run through the same position.
IdleWalk ==
    /\ fens = <<>>
    /\ best_pv_at_fen = EmptyMap
    /\ color = "none"
    /\ cap_moves = 0
    /\ walkPc = "idle"
    /\ pv_fens_by_root = EmptyMap
    /\ pv_all = {}
    /\ oracle_requests = <<>>
    /\ forced_pv = EmptyMap
    /\ dists = <<>>

WHITE == "white"

BLACK == "black"

\* chess.Board(pf).turn
Turn(p) == IF p % 2 = 0 THEN WHITE ELSE BLACK

\* A move of a principal variation either parses and is legal where it is
\* played, or it does not.
Ok == "ok"

Bad == "bad"

Ones(n) == [i \in 1..n |-> Ok]

PVs == {<<>>, <<Ok>>, <<Ok, Bad, Ok>>, Ones(MaxPv)}

\* faulty variant: one more move of each side is replayed
max_pv_plies_more(cap) == cap * 2 + 2

\* max_pv_plies = cap_moves * 2
max_pv_plies(cap) == cap * 2

\* the loop of _collect_pv_fens from the i-th move on, the board being b
RECURSIVE CollectFrom(_, _, _, _)
CollectFrom(b, pv, i, max_plies) ==
    IF i > Len(pv) \/ i > max_plies THEN <<>>
    ELSE IF pv[i] # Ok THEN <<>>
         ELSE <<b + 1>> \o CollectFrom(b + 1, pv, i + 1, max_plies)

\* faulty variant: every move is played, legal or not
collect_pv_fens_whole(root_fen, pv, max_plies) ==
    [i \in 1..(Min(Len(pv), max_plies) + 1) |-> root_fen + i - 1]

\* _collect_pv_fens
collect_pv_fens(root_fen, pv, max_plies) ==
    <<root_fen>> \o CollectFrom(root_fen, pv, 1, max_plies)

\* faulty variant: the side to move is not looked at
target_to_move_any(pf, side) == TRUE

\* b.turn == color
target_to_move(pf, side) == Turn(pf) = side

\* faulty variant: the moves seen so far are returned when nothing is found
not_found_seen(cap, moves_seen) == moves_seen

\* if found is None: found = cap_moves
not_found(cap, moves_seen) == cap

\* forced_pv.get(pf, False)
ForcedGet(forced, pf) == IF pf \in DOMAIN forced THEN forced[pf] ELSE FALSE

\* lines 166-173: the loop over pv_fens from its i-th position on
RECURSIVE WalkFrom(_, _, _, _, _, _)
WalkFrom(pv_fens, i, moves_seen, side, cap, forced) ==
    IF i > Len(pv_fens) THEN not_found(cap, moves_seen)
    ELSE IF target_to_move(pv_fens[i], side)
         THEN IF ForcedGet(forced, pv_fens[i]) THEN moves_seen
              ELSE IF moves_seen + 1 > cap THEN not_found(cap, moves_seen + 1)
                   ELSE WalkFrom(pv_fens, i + 1, moves_seen + 1, side, cap, forced)
         ELSE WalkFrom(pv_fens, i + 1, moves_seen, side, cap, forced)

\* pv_fens_by_root.get(fen) or [fen]
PvFensOf(by_root, fen) ==
    IF fen \in DOMAIN by_root /\ by_root[fen] # <<>> THEN by_root[fen] ELSE <<fen>>

\* faulty variant: the distances come out in the reverse of the root order
dists_reversed(roots, by_root, forced, side, cap) ==
    [i \in 1..Len(roots) |->
        WalkFrom(PvFensOf(by_root, roots[Len(roots) + 1 - i]), 1, 0, side, cap, forced)]

\* lines 160-177: one distance per root, appended in root order
dists_of(roots, by_root, forced, side, cap) ==
    [i \in 1..Len(roots) |->
        WalkFrom(PvFensOf(by_root, roots[i]), 1, 0, side, cap, forced)]

\* The ranked moves the oracle may give for a position: a gap of exactly the
\* forced threshold, or one below it.
SharpTop == <<RankedMove(CpScore(100)), RankedMove(CpScore(0))>>

QuietTop == <<RankedMove(CpScore(99)), RankedMove(CpScore(0))>>

\* The oracle's answers to a request for the positions P: ranked moves for
\* every position, or for all but one of them.
OracleResults(P) ==
    UNION {[P \ D -> {SharpTop, QuietTop}] : D \in {{}} \cup {{p} : p \in P}}

InitWalk ==
    /\ fens \in SeqsUpTo(0..MaxRoot, MaxFens)
    /\ best_pv_at_fen \in [Range(fens) -> PVs]
    /\ color \in {WHITE, BLACK}
    /\ cap_moves \in 1..MaxCap
    /\ walkPc = "init"
    /\ pv_fens_by_root = EmptyMap
    /\ pv_all = {}
    /\ oracle_requests = <<>>
    /\ forced_pv = EmptyMap
    /\ dists = <<>>

\* lines 133-155: replay every root's variation and ask the oracle once for
\* the distinct positions
WalkCall ==
    /\ walkPc = "init"
    /\ LET by_root == [r \in Range(fens) |->
                          collect_pv_fens(r, best_pv_at_fen[r], max_pv_plies(cap_moves))]
           all == UNION {Range(by_root[r]) : r \in DOMAIN by_root}
       IN  /\ pv_fens_by_root' = by_root
           /\ pv_all' = all
           /\ oracle_requests' = Append(oracle_requests,
                  [positions |-> all, multipv |-> ForcedMultiPv, pv_plies |-> ForcedPvPlies])
    /\ walkPc' = "awaiting"
    /\ UNCHANGED <<fens, best_pv_at_fen, color, cap_moves, forced_pv, dists>>
    /\ UNCHANGED notWalkVars

\* lines 157-179: the oracle has answered; classify every position and walk
\* every root's line
WalkResume ==
    /\ walkPc = "awaiting"
    /\ \E res \in OracleResults(pv_all) :
          LET forced == [p \in pv_all |->
                            is_forced_from_topmoves(IF p \in DOMAIN res THEN res[p] ELSE <<>>)]
          IN  /\ forced_pv' = forced
              /\ dists' = dists_of(fens, pv_fens_by_root, forced, color, cap_moves)
    /\ walkPc' = "returned"
    /\ UNCHANGED <<fens, best_pv_at_fen, color, cap_moves, pv_fens_by_root, pv_all,
                   oracle_requests>>
    /\ UNCHANGED notWalkVars

NextWalk ==
    \/ WalkCall
    \/ WalkResume

\* ----------- build_rhythm_data (chester/rhythm_pipeline.py, 182-337)
\* An optional value: None is the empty sequence, a present value x is <<x>>.
None == <<>>

Some(x) == <<x>>

EmptySeries ==
    [ply |-> <<>>, eval_pawns |-> <<>>, perplexity_white |-> <<>>,
     perplexity_black_mirrored |-> <<>>, forced_dist_white |-> <<>>,
     forced_dist_black_mirrored |-> <<>>, time_white_sec |-> <<>>,
     time_black_sec_mirrored |-> <<>>, side_to_move |-> <<>>]

IdleRh ==
    /\ rh_start = 0
    /\ nplies = 0
    /\ rh_depth = 0
    /\ rh_width = 0
    /\ rh_pv_plies = 0
    /\ rh_tc = FALSE
    /\ rh_clk = <<>>
    /\ rhPc = "idle"
    /\ rh_fens = <<>>
    /\ depths = <<>>
    /\ w_clocks = <<>>
    /\ b_clocks = <<>>
    /\ by_depth = EmptyMap
    /\ best_cp_by_fen = EmptyMap
    /\ rh_best_pv = EmptyMap
    /\ rh_requests = <<>>
    /\ forced_nodata = <<>>
    /\ dist_white = <<>>
    /\ dist_black = <<>>
    /\ series = EmptySeries

\* A number of pawns is the exact quotient num / den, den > 0.
Rat(n, d) == [num |-> n, den |-> d]

RatLt(a, b) == a.num * b.den < b.num * a.den

\* _cp_to_pawns
cp_to_pawns(cp) == Rat(cp, CpPerPawn)

\* faulty variant: the value is never clipped
cap_none(x, lo, hi) == x

\* _cap
cap(x, lo, hi) ==
    IF RatLt(x, lo) THEN lo
    ELSE IF RatLt(hi, x) THEN hi
         ELSE x

\* faulty variant: no position after the last ply
fens_before_each_ply_short(start, n) == [i \in 1..n |-> start + i - 1]

\* _fens_before_each_ply: for ply0 in range(0, len(moves) + 1)
fens_before_each_ply(start, n) == [i \in 1..(n + 1) |-> start + i - 1]

\* lines 200-204: d = 1; while d <= depth: append d; d *= 2
RECURSIVE DepthsFrom(_, _)
DepthsFrom(d, depth) ==
    IF d <= depth THEN <<d>> \o DepthsFrom(d * 2, depth) ELSE <<>>

\* lines 199-206
depths_of(depth) ==
    LET ds == DepthsFrom(1, depth)
    IN  IF ds = <<>> THEN <<depth>> ELSE ds

\* max(depths)
depth_max_of(ds) == CHOOSE d \in Range(ds) : \A x \in Range(ds) : x <= d

\* depths.index(depth_max)
IndexOf(ds, d) == CHOOSE i \in 1..Len(ds) : ds[i] = d /\ \A j \in 1..(i - 1) : ds[j] # d

\* extract_clock_series: index 0 holds the base time of both sides when the
\* time control parses; the reading of ply i goes to the side that moved
clock_series(start, n, tc, clk, side) ==
    [i \in 1..(n + 1) |->
        IF i = 1 THEN (IF tc THEN Some(BaseSeconds) ELSE None)
        ELSE IF Turn(start + i - 2) = side THEN clk[i - 1] ELSE None]

\* faulty variant: the value keeps its sign
mirrored_plain(x) == x

\* -float(perp), -float(fb), -tb
mirrored(x) == 0 - x

\* lines 295-301: one entry per ply index 0..nplies
time_series(clocks, n, black) ==
    [i \in 1..(n + 1) |->
        LET t == IF i - 1 < Len(clocks) THEN clocks[i] ELSE None
        IN  IF t = None THEN None
            ELSE IF black THEN Some(mirrored(t[1])) ELSE t]

RankedMovePv(sc, pv) == [score |-> sc, pv_uci |-> pv]

\* _best_pv_uci
best_pv_uci(tms) == IF tms = <<>> THEN <<>> ELSE tms[1].pv_uci

\* faulty variant: a position without data is given a decisive gap
TopMovesOf_sharp(answer, fen) == IF fen \in DOMAIN answer THEN answer[fen] ELSE SharpTop

\* (by_depth[d].get(fen) or {}).get("top_moves") or []
TopMovesOf(answer, fen) == IF fen \in DOMAIN answer THEN answer[fen] ELSE <<>>

\* lines 231-232: the best move's score as one signed integer, 0 without data
best_cp(tms) == IF tms = <<>> THEN score_to_cp(NoScore) ELSE score_to_cp(tms[1].score)

\* The ranked moves the oracle may give for one position: none at all, a small
\* score with a two-ply variation, scores beyond either end of the emitted
\* range, and forced mates of both signs.
TopsSamples ==
    << <<>>,
       <<RankedMovePv(CpScore(50), <<Ok, Ok>>), RankedMove(CpScore(0))>>,
       <<RankedMovePv(CpScore(-700), <<Ok, Bad>>), RankedMove(CpScore(-900))>>,
       <<RankedMovePv(MateScore(1), <<Ok>>)>>,
       <<RankedMovePv(CpScore(601), <<Ok, Ok>>), RankedMove(CpScore(600))>>,
       <<RankedMovePv(MateScore(-2), <<Ok, Ok>>), RankedMove(CpScore(-500))>> >>

\* the oracle returns at most pv_length moves of a variation
TruncPv(tms, n) ==
    [i \in 1..Len(tms) |->
        [tms[i] EXCEPT !.pv_uci = SubSeq(tms[i].pv_uci, 1, Min(n, Len(tms[i].pv_uci)))]]

\* The oracle's answers to a request for the score of every position of the
\* game: the samples, dealt to the positions from any one of them on.
ScoreAnswers(positions, pv_length) ==
    {[p \in Range(positions) |->
         TruncPv(TopsSamples[((p + k) % Len(TopsSamples)) + 1], pv_length)]
     : k \in 1..Len(TopsSamples)}

\* The oracle's answers to a request for classification: nothing is sharp, or
\* every third position is, from any of the first three on.
ForcedAnswers(P) ==
    {[p \in P |-> IF k < 3 /\ p % 3 = k THEN SharpTop ELSE QuietTop] : k \in 0..3}

\* the positions of a score answer that came without ranked moves
NoDataIn(answer) == {p \in DOMAIN answer : answer[p] = <<>>}

\* The oracle's answers to a request for the classification of the positions
\* P, gaps being the positions it had no ranked moves for at the deepest
\* depth: an answer for every position, or one that again lacks those.
ClassAnswers(P, gaps) ==
    {[p \in P \ G |-> a[p]] : a \in ForcedAnswers(P), G \in {{}, gaps \cap P}}

\* faulty variant: the width is passed on as given
ScoreRequest_narrow(positions, d, width, pv_length) ==
    [kind |-> "scores", positions |-> Range(positions), depth |-> d,
     multipv |-> width, pv_plies |-> pv_length]

ScoreRequest(positions, d, width, pv_length) ==
    [kind |-> "scores", positions |-> Range(positions), depth |-> d,
     multipv |-> Max(MinMultiPv, width), pv_plies |-> pv_length]

\* lines 132-155 of the walker, as called from build_rhythm_data
ForcedRequest(positions, d) ==
    [kind |-> "forced", positions |-> positions, depth |-> d, multipv |-> ForcedMultiPv,
     pv_plies |-> ForcedPvPlies]

PvFensByRoot(roots, pvs, cap_arg) ==
    [r \in Range(roots) |-> collect_pv_fens(r, pvs[r], max_pv_plies(cap_arg))]

PvAll(by_root) == UNION {Range(by_root[r]) : r \in DOMAIN by_root}

\* lines 157-179 of the walker, as called from build_rhythm_data
WalkerDists(roots, pvs, answer, side, cap_arg) ==
    LET by_root == PvFensByRoot(roots, pvs, cap_arg)
        forced == [p \in PvAll(by_root) |-> is_forced_from_topmoves(TopMovesOf(answer, p))]
    IN  dists_of(roots, by_root, forced, side, cap_arg)

\* lines 259-292: the series loop
Assemble(roots, cps_by_fen, ds, dw, db) ==
    LET n == Len(roots)
        cpDeep(i) == cps_by_fen[roots[i]][IndexOf(ds, depth_max_of(ds))]
        perp(i) == Min(perplexity_segments(cps_by_fen[roots[i]]), SeriesCap)
        fw(i) == Min(dw[i], SeriesCap)
        fb(i) == Min(db[i], SeriesCap)
        white(i) == Turn(roots[i]) = WHITE
    IN  [eval_pawns |-> [i \in 1..n |-> cap(cp_to_pawns(cpDeep(i)),
                                           Rat(0 - EvalCap, 1), Rat(EvalCap, 1))],
         perplexity_white |-> [i \in 1..n |-> IF white(i) THEN Some(perp(i)) ELSE None],
         perplexity_black_mirrored |->
             [i \in 1..n |-> IF white(i) THEN None ELSE Some(mirrored(perp(i)))],
         forced_dist_white |-> [i \in 1..n |-> IF white(i) THEN Some(fw(i)) ELSE None],
         forced_dist_black_mirrored |->
             [i \in 1..n |-> IF white(i) THEN None ELSE Some(mirrored(fb(i)))],
         side_to_move |-> [i \in 1..n |-> IF white(i) THEN "WHITE" ELSE "BLACK"]]

InitRh ==
    /\ rh_start \in {0, 1}
    /\ nplies \in 0..MaxPlies
    /\ rh_depth \in 0..MaxDepth
    /\ rh_width \in 1..MaxWidth
    /\ rh_pv_plies \in 1..MaxPvPlies
    /\ rh_tc \in BOOLEAN
    /\ rh_clk \in [1..nplies -> {None, Some(ClkSeconds)}]
    /\ rhPc = "init"
    /\ rh_fens = <<>>
    /\ depths = <<>>
    /\ w_clocks = <<>>
    /\ b_clocks = <<>>
    /\ by_depth = EmptyMap
    /\ best_cp_by_fen = EmptyMap
    /\ rh_best_pv = EmptyMap
    /\ rh_requests = <<>>
    /\ forced_nodata = <<>>
    /\ dist_white = <<>>
    /\ dist_black = <<>>
    /\ series = EmptySeries

\* lines 193-221: the positions, the depths, the clocks, and the request for
\* the first depth
RhCall ==
    /\ rhPc = "init"
    /\ LET fs == fens_before_each_ply(rh_start, nplies)
           ds == depths_of(rh_depth)
       IN  /\ rh_fens' = fs
           /\ depths' = ds
           /\ rh_requests' = <<ScoreRequest(fs, ds[1], rh_width, rh_pv_plies)>>
    /\ w_clocks' = clock_series(rh_start, nplies, rh_tc, rh_clk, WHITE)
    /\ b_clocks' = clock_series(rh_start, nplies, rh_tc, rh_clk, BLACK)
    /\ rhPc' = "analysing"
    /\ UNCHANGED <<rh_start, nplies, rh_depth, rh_width, rh_pv_plies, rh_tc, rh_clk,
                   by_depth, best_cp_by_fen, rh_best_pv, forced_nodata, dist_white,
                   dist_black, series>>
    /\ UNCHANGED notRhVars

\* lines 212-221: the answer for one depth arrives and the next depth is asked
RhNextDepth ==
    /\ rhPc = "analysing"
    /\ Len(rh_requests) < Len(depths)
    /\ \E answer \in ScoreAnswers(rh_fens, rh_pv_plies) :
          by_depth' = DictSet(by_depth, depths[Len(rh_requests)], answer)
    /\ rh_requests' = Append(rh_requests,
           ScoreRequest(rh_fens, depths[Len(rh_requests) + 1], rh_width, rh_pv_plies))
    /\ UNCHANGED <<rh_start, nplies, rh_depth, rh_width, rh_pv_plies, rh_tc, rh_clk, rhPc,
                   rh_fens, depths, w_clocks, b_clocks, best_cp_by_fen, rh_best_pv,
                   forced_nodata, dist_white, dist_black, series>>
    /\ UNCHANGED notRhVars

\* lines 221-248: the answer for the last depth arrives; the scores and the
\* variations are taken from the answers and the walker is called for White
RhLastDepth ==
    /\ rhPc = "analysing"
    /\ Len(rh_requests) = Len(depths)
    /\ \E answer \in ScoreAnswers(rh_fens, rh_pv_plies) :
          LET bd == DictSet(by_depth, depths[Len(rh_requests)], answer)
              dmax == depth_max_of(depths)
              pvs == [f \in Range(rh_fens) |-> best_pv_uci(TopMovesOf(bd[dmax], f))]
          IN  /\ by_depth' = bd
              /\ best_cp_by_fen' =
                     [f \in Range(rh_fens) |->
                         [j \in 1..Len(depths) |-> best_cp(TopMovesOf(bd[depths[j]], f))]]
              /\ rh_best_pv' = pvs
              /\ rh_requests' = Append(rh_requests,
                     ForcedRequest(PvAll(PvFensByRoot(rh_fens, pvs, RhythmCap)), dmax))
    /\ rhPc' = "walk_white"
    /\ UNCHANGED <<rh_start, nplies, rh_depth, rh_width, rh_pv_plies, rh_tc, rh_clk,
                   rh_fens, depths, w_clocks, b_clocks, forced_nodata, dist_white,
                   dist_black, series>>
    /\ UNCHANGED notRhVars

\* lines 240-257: White's distances are back and the walker is called for Black
RhWalkWhite ==
    /\ rhPc = "walk_white"
    /\ \E answer \in ClassAnswers(PvAll(PvFensByRoot(rh_fens, rh_best_pv, RhythmCap)),
                                  NoDataIn(by_depth[depth_max_of(depths)])) :
          /\ dist_white' = WalkerDists(rh_fens, rh_best_pv, answer, WHITE, RhythmCap)
          /\ forced_nodata' = Append(forced_nodata,
                 PvAll(PvFensByRoot(rh_fens, rh_best_pv, RhythmCap)) \ DOMAIN answer)
    /\ rh_requests' = Append(rh_requests,
           ForcedRequest(PvAll(PvFensByRoot(rh_fens, rh_best_pv, RhythmCap)),
                         depth_max_of(depths)))
    /\ rhPc' = "walk_black"
    /\ UNCHANGED <<rh_start, nplies, rh_depth, rh_width, rh_pv_plies, rh_tc, rh_clk,
                   rh_fens, depths, w_clocks, b_clocks, by_depth, best_cp_by_fen,
                   rh_best_pv, dist_black, series>>
    /\ UNCHANGED notRhVars

\* lines 249-337: Black's distances are back; the series are assembled and
\* returned
RhWalkBlack ==
    /\ rhPc = "walk_black"
    /\ \E answer \in ClassAnswers(PvAll(PvFensByRoot(rh_fens, rh_best_pv, RhythmCap)),
                                  NoDataIn(by_depth[depth_max_of(depths)])) :
          LET db == WalkerDists(rh_fens, rh_best_pv, answer, BLACK, RhythmCap)
              a == Assemble(rh_fens, best_cp_by_fen, depths, dist_white, db)
          IN  /\ dist_black' = db
              /\ forced_nodata' = Append(forced_nodata,
                     PvAll(PvFensByRoot(rh_fens, rh_best_pv, RhythmCap)) \ DOMAIN answer)
              /\ series' =
                     [ply |-> [i \in 1..(nplies + 1) |-> i - 1],
                      eval_pawns |-> a.eval_pawns,
                      perplexity_white |-> a.perplexity_white,
                      perplexity_black_mirrored |-> a.perplexity_black_mirrored,
                      forced_dist_white |-> a.forced_dist_white,
                      forced_dist_black_mirrored |-> a.forced_dist_black_mirrored,
                      time_white_sec |-> time_series(w_clocks, nplies, FALSE),
                      time_black_sec_mirrored |-> time_series(b_clocks, nplies, TRUE),
                      side_to_move |-> a.side_to_move]
    /\ rhPc' = "returned"
    /\ UNCHANGED <<rh_start, nplies, rh_depth, rh_width, rh_pv_plies, rh_tc, rh_clk,
                   rh_fens, depths, w_clocks, b_clocks, by_depth, best_cp_by_fen,
                   rh_best_pv, rh_requests, dist_white>>
    /\ UNCHANGED notRhVars

NextRh ==
    \/ RhCall
    \/ RhNextDepth
    \/ RhLastDepth
    \/ RhWalkWhite
    \/ RhWalkBlack

\* --------------------- gemini_text (chester/gemini.py, 94-165)
\* One attempt is one run of _call_once in a worker thread; its fallback for
\* an older SDK signature happens inside the attempt.
NoErr == [kind |-> "none", id |-> 0]

RemoteErr(n) == [kind |-> "remote", id |-> n]

\* RuntimeError("gemini_text failed")
FailedErr == [kind |-> "RuntimeError", id |-> 0]

IdleGem ==
    /\ retries = 0
    /\ gemPc = "idle"
    /\ attempt = 0
    /\ gem_trace = <<>>
    /\ gem_errs = <<>>
    /\ gem_sleeps = <<>>
    /\ last_err = NoErr
    /\ gem_result = 0
    /\ gem_raised = NoErr

RECURSIVE Pow2(_)
Pow2(n) == IF n = 0 THEN 1 ELSE 2 * Pow2(n - 1)

\* base = 0.75 * (2 ** attempt)
backoff_base(n) == BackoffBase * Pow2(n)

\* faulty variant: the first attempt's error is raised
reraised_first(errs) == errs[1]

\* raise, inside the except clause of the attempt that failed
reraised(errs) == errs[Len(errs)]

InitGem ==
    /\ retries \in (0 - 1)..MaxRetries
    /\ gemPc = "init"
    /\ attempt = 0
    /\ gem_trace = <<>>
    /\ gem_errs = <<>>
    /\ gem_sleeps = <<>>
    /\ last_err = NoErr
    /\ gem_result = 0
    /\ gem_raised = NoErr

\* lines 125-129: the loop is entered and the first attempt is started
GemStart ==
    /\ gemPc = "init"
    /\ retries + 1 > 0
    /\ attempt' = 0
    /\ gem_trace' = Append(gem_trace, "call")
    /\ gemPc' = "calling"
    /\ UNCHANGED <<retries, gem_errs, gem_sleeps, last_err, gem_result, gem_raised>>
    /\ UNCHANGED notGemVars

\* lines 128, 165: range(retries + 1) is empty
GemNoAttempt ==
    /\ gemPc = "init"
    /\ retries + 1 <= 0
    /\ gem_raised' = IF last_err # NoErr THEN last_err ELSE FailedErr
    /\ gemPc' = "raised"
    /\ UNCHANGED <<retries, attempt, gem_trace, gem_errs, gem_sleeps, last_err, gem_result>>
    /\ UNCHANGED notGemVars

\* lines 130-142: the attempt returns a text, which is logged and returned
GemSucceed ==
    /\ gemPc = "calling"
    /\ \E txt \in 1..NumTexts : gem_result' = txt
    /\ gem_trace' = Append(gem_trace, "ok")
    /\ gemPc' = "returned"
    /\ UNCHANGED <<retries, attempt, gem_errs, gem_sleeps, last_err, gem_raised>>
    /\ UNCHANGED notGemVars

\* lines 143-163: the attempt raises and is not the last one; the error is
\* logged and the backoff sleep begins
GemFailRetry ==
    /\ gemPc = "calling"
    /\ ~(attempt >= retries)
    /\ \E n \in 1..NumErrs :
          /\ last_err' = RemoteErr(n)
          /\ gem_errs' = Append(gem_errs, RemoteErr(n))
    /\ \E jitter \in {0, JitterMax - 1} :
          gem_sleeps' = Append(gem_sleeps, backoff_base(attempt) + jitter)
    /\ gem_trace' = gem_trace \o <<"fail", "sleep">>
    /\ gemPc' = "sleeping"
    /\ UNCHANGED <<retries, attempt, gem_result, gem_raised>>
    /\ UNCHANGED notGemVars

\* lines 143-158: the last attempt raises; the error is logged and re-raised
GemFailLast ==
    /\ gemPc = "calling"
    /\ attempt >= retries
    /\ \E n \in 1..NumErrs :
          /\ last_err' = RemoteErr(n)
          /\ gem_errs' = Append(gem_errs, RemoteErr(n))
          /\ gem_raised' = reraised(Append(gem_errs, RemoteErr(n)))
    /\ gem_trace' = Append(gem_trace, "fail")
    /\ gemPc' = "raised"
    /\ UNCHANGED <<retries, attempt, gem_sleeps, gem_result>>
    /\ UNCHANGED notGemVars

\* lines 163, 128-130: the sleep is over and the next attempt is started
GemWake ==
    /\ gemPc = "sleeping"
    /\ attempt' = attempt + 1
    /\ gem_trace' = Append(gem_trace, "call")
    /\ gemPc' = "calling"
    /\ UNCHANGED <<retries, gem_errs, gem_sleeps, last_err, gem_result, gem_raised>>
    /\ UNCHANGED notGemVars

NextGem ==
    \/ GemStart
    \/ GemNoAttempt
    \/ GemSucceed
    \/ GemFailRetry
    \/ GemFailLast
    \/ GemWake

IdleRest == IdlePx /\ IdleSc /\ IdleWalk /\ IdleRh /\ IdleGem

InitExplain == InitEx /\ IdleMap /\ IdleBatch /\ IdleRest

SpecExplain == InitExplain /\ [][NextEx]_vars

InitBatcher == InitBatch /\ IdleMap /\ IdleEx /\ IdleRest

InitPerplexity == InitPx /\ IdleMap /\ IdleEx /\ IdleBatch /\ IdleSc /\ IdleWalk /\ IdleRh /\ IdleGem

SpecPerplexity == InitPerplexity /\ [][NextPx]_vars

InitScores == InitSc /\ IdleMap /\ IdleEx /\ IdleBatch /\ IdlePx /\ IdleWalk /\ IdleRh /\ IdleGem

InitWalker == InitWalk /\ IdleMap /\ IdleEx /\ IdleBatch /\ IdlePx /\ IdleSc /\ IdleRh /\ IdleGem

InitRhythm == InitRh /\ IdleMap /\ IdleEx /\ IdleBatch /\ IdlePx /\ IdleSc /\ IdleWalk /\ IdleGem

SpecRhythm == InitRhythm /\ [][NextRh]_vars

InitGemini == InitGem /\ IdleMap /\ IdleEx /\ IdleBatch /\ IdlePx /\ IdleSc /\ IdleWalk /\ IdleRh

\* A remote call finishes, with a text or with an error, and a sleep ends.
SpecGemini == InitGemini /\ [][NextGem]_vars /\ WF_vars(NextGem)

SpecWalk == InitWalker /\ [][NextWalk]_vars

SpecScores == InitScores /\ [][NextSc]_vars

SpecBatch == InitBatcher /\ [][NextBatch]_vars


Init == InitMap /\ IdleEx /\ IdleBatch /\ IdleRest

Next == NextMap

Spec == Init /\ [][Next]_vars

\* The event loop runs every task that is ready, and a worker call that has
\* started finishes: a step that can be taken is taken.
FairMap == WF_vars(Next)

\* Neither the semaphore nor the loop over the completions looks at the keys:
\* the items are the occurrences of one key.
InitFair == Init /\ \A i \in DOMAIN items : items[i] = items[1]

SpecFair == InitFair /\ [][Next]_vars /\ FairMap

\* ================================================================= claims
\* --------------------------------------------------- async_map_progress

\* C1: for every configured concurrency N (below 1 counts as 1) and every
\* interleaving of starts and completions, at most N worker operations are
\* active at the same time.
C1_AtMostNActive == Cardinality(Running) <= Max(1, concurrency)

\* the limit is reached with another task kept waiting, under a clamped N
C1_Witness ==
    /\ concurrency < 1
    /\ Cardinality(Running) = 1
    /\ waiters # <<>>

\* C2: fail-fast: when a worker operation fails the call never returns a map,
\* not even a partial one; the failure the consumer meets is the call's
\* failure, and the call fails as soon as a failed completion is consumed.
C2_FailFast ==
    /\ mainPc = "returned" => \A t \in Tasks : taskPc[t] = "succeeded"
    /\ (\E i \in DOMAIN consumed : taskPc[consumed[i]] = "failed") =>
           /\ mainPc = "raised"
           /\ raiseCause = "worker" => /\ taskPc[raisedBy] = "failed"
                                       /\ raisedBy = consumed[Len(consumed)]

\* a failure met after an earlier completion had already been stored
C2_Witness ==
    /\ mainPc = "raised"
    /\ raiseCause = "worker"
    /\ Len(consumed) >= 2
    /\ DOMAIN out # {}

\* C3: once the call has failed because of a worker failure, no waiting
\* sibling starts and no running sibling runs to completion.
C3_SiblingsCancelled ==
    [][(mainPc = "raised" /\ raiseCause = "worker") =>
         \A t \in Tasks :
            /\ taskPc[t] = "waiting" => taskPc'[t] # "running"
            /\ taskPc[t] = "running" => taskPc'[t] \notin {"succeeded", "failed"}]_vars

\* C4: the held slots are exactly the active worker operations, and when
\* every task has ended (success, failure or cancellation) all slots are free.
C4_SlotsMatchActive ==
    mainPc # "init" =>
        /\ semValue >= 0
        /\ SemInit(concurrency) - semValue = Cardinality(Running)
        /\ Pending = {} => semValue = SemInit(concurrency)

\* three tasks that all held a slot ended in the three ways
C4_Witness ==
    /\ Len(items) = 3
    /\ concurrency = 3
    /\ Pending = {}
    /\ \E a, b, c \in Tasks : /\ taskPc[a] = "succeeded"
                              /\ taskPc[b] = "failed"
                              /\ taskPc[c] = "cancelled"
    /\ semValue = 3

\* C5: with pairwise distinct items and only successful worker calls, the
\* call returns after all operations have completed, and the map has exactly
\* the items as keys, each with the value of the call made for it.
C5_ResultMap ==
    (mainPc = "returned" /\ IsDistinct(items)) =>
        /\ \A t \in Tasks : taskPc[t] = "succeeded"
        /\ DOMAIN out = Range(items)
        /\ \A t \in Tasks : out[items[t]] = callRes[t]

\* two items completed in the reverse of the item order, with different values
C5_Witness ==
    /\ mainPc = "returned"
    /\ IsDistinct(items)
    /\ Len(items) = 2
    /\ consumed = <<2, 1>>
    /\ callRes[1] # callRes[2]

\* the last completed occurrence of key k, by the order of consumption
LastDone(k) ==
    LET I == {i \in DOMAIN consumed : items[consumed[i]] = k}
    IN  consumed[CHOOSE i \in I : \A j \in I : j <= i]

\* C30: when the items hold the same key more than once and the call returns,
\* the worker has been called once for every occurrence, and the map has one
\* entry for the key: the result of the occurrence that completed last, in
\* whatever order the occurrences completed.
C30_LastCompletionWins ==
    mainPc = "returned" =>
        /\ \A t \in Tasks : taskPc[t] = "succeeded"
        /\ Len(consumed) = Len(items)
        /\ \A t \in Tasks : \E i \in DOMAIN consumed : consumed[i] = t
        /\ DOMAIN out = Range(items)
        /\ \A k \in Range(items) : out[k] = callRes[LastDone(k)]

\* a key given twice whose first occurrence completed last, with another result
C30_Witness ==
    /\ mainPc = "returned"
    /\ Len(items) = 2
    /\ items[1] = items[2]
    /\ consumed = <<2, 1>>
    /\ callRes[1] # callRes[2]
    /\ out[items[1]] = callRes[1]

\* the call ends, by a return or by an exception, and the queue for a slot
\* empties: no task stays in it
EndsAndNoItemWaitsForever ==
    <>[](/\ mainPc \in {"returned", "raised"}
         /\ \A t \in Tasks : taskPc[t] # "waiting")

\* the worker is entered from the task's first step or from the queue only,
\* and a task that entered it never goes back to either
StartedAtMostOnce ==
    [][\A t \in Tasks :
          /\ (taskPc[t] # "running" /\ taskPc'[t] = "running") =>
                 taskPc[t] \in {"created", "waiting"}
          /\ taskPc[t] \in {"running", "succeeded", "failed", "cancelled"} =>
                 taskPc'[t] \notin {"created", "waiting"}]_vars

\* with no item the call returns the empty map and no task exists
EmptyCallReturnsEmpty ==
    [](Len(items) = 0 /\ mainPc \notin {"init", "idle"} =>
          /\ mainPc = "returned"
          /\ out = EmptyMap
          /\ Tasks = {})

\* C29 as stated: when every worker call finishes, the call returns or
\* raises whatever the items and the concurrency, no occurrence waits forever
\* for a slot, an empty collection gives the empty map without a worker call,
\* and the worker is started exactly once for every occurrence.
C29_EveryItemStarted ==
    /\ EndsAndNoItemWaitsForever
    /\ EmptyCallReturnsEmpty
    /\ StartedAtMostOnce
    /\ \A t \in 1..MaxItems :
          (t \in Tasks /\ taskPc[t] \in {"created", "waiting"}) ~>
              (t \in Tasks /\ taskPc[t] = "running")

\* C29, amended: when every worker call finishes, the call returns or raises
\* whatever the items and the concurrency, no occurrence waits forever for a
\* slot, an empty collection gives the empty map without a worker call, and
\* the worker is started at most once for every occurrence: exactly once for
\* each when the call returns.
C29_Terminates ==
    /\ EndsAndNoItemWaitsForever
    /\ EmptyCallReturnsEmpty
    /\ StartedAtMostOnce
    /\ [](mainPc = "returned" => \A t \in Tasks : taskPc[t] = "succeeded")

\* three occurrences took their turn on the single slot of a clamped
\* concurrency, and the call returned
C29_Witness ==
    /\ concurrency < 1
    /\ Len(items) = 3
    /\ mainPc = "returned"
    /\ Len(consumed) = 3

\* C7: a failure of the progress observer does not abort the mapper.
C7_ObserverNoAbort == ~(mainPc = "raised" /\ raiseCause = "observer")

\* C27: every write to the result map is made by the single control flow that
\* consumes completions: the map changes only in a step that takes one
\* completion, by the entry of the task taken, and no step of a worker's task
\* changes it, although worker operations overlap in flight.
C27_SingleWriter ==
    [][/\ out' # out =>
             /\ Len(consumed') = Len(consumed) + 1
             /\ taskPc' = taskPc
             /\ LET t == consumed'[Len(consumed')]
                IN  out' = DictSet(out, items[t], callRes[t])
       /\ taskPc' # taskPc => out' = out]_vars

\* the map has an entry while two other worker operations are in flight
C27_Witness ==
    /\ mainPc = "awaiting"
    /\ DOMAIN out # {}
    /\ Cardinality(Running) >= 2

\* ------------------------------------------------------------- explain

\* C6: in the line-explanation fan-out of explain a failure inside one
\* candidate's unit of work never escapes: no task fails and the fan-out never
\* raises because of a worker; when it ends there are exactly K lines, one per
\* candidate, the failed units carrying the error entry and the others not.
C6_TolerantFanOut ==
    /\ exRaiseCause # "worker"
    /\ \A t \in ExTasks : exTaskPc[t] # "failed"
    /\ exPc = "done" =>
          /\ Len(lines_out) = Len(candidates)
          /\ DOMAIN results_by_uci = Range(candidates)
          /\ \A t \in ExTasks : lines_out[t] = exLine[t]
          /\ \A t \in ExTasks : exLine[t].move_uci = candidates[t]

\* three candidates, exactly one of them failed
C6_Witness ==
    /\ exPc = "done"
    /\ Len(candidates) = 3
    /\ lines_out[2].error
    /\ ~lines_out[1].error
    /\ ~lines_out[3].error

\* the place of a move in a list without repeats, 0 when it is not there
PlaceIn(seq, m) == IF m \in Range(seq) THEN CHOOSE i \in 1..Len(seq) : seq[i] = m ELSE 0

\* C28: the lines handed to the report are in the original candidate order,
\* the actual move first, then the model's pick, then the engine's first three
\* moves in rank order, each candidate once, whatever the order in which the
\* per-candidate tasks complete.
C28_CandidateOrder ==
    exPc = "done" =>
        LET ucis == [i \in 1..Len(lines_out) |-> lines_out[i].move_uci]
            engine == SubSeq(top_moves, 1, Min(3, Len(top_moves)))
            pick == IF llm_uci # 0 THEN {llm_uci} ELSE {}
        IN  /\ ucis = candidates
            /\ IsDistinct(ucis)
            /\ Range(ucis) = {actual_uci} \cup pick \cup Range(engine)
            /\ ucis[1] = actual_uci
            /\ \A m \in pick : PlaceIn(ucis, m) <= 2
            /\ \A i, j \in 1..Len(engine) :
                  (i < j /\ engine[i] \notin {actual_uci} \cup pick
                         /\ engine[j] \notin {actual_uci} \cup pick)
                      => PlaceIn(ucis, engine[i]) < PlaceIn(ucis, engine[j])

\* three candidates whose tasks completed out of order, the first one last
C28_Witness ==
    /\ exPc = "done"
    /\ Len(candidates) = 3
    /\ exConsumed = <<2, 3, 1>>
    /\ llm_uci # 0
    /\ llm_uci # actual_uci
    /\ lines_out[2].move_uci = llm_uci

\* ----------------------------------------------------- request batcher
CeilDiv(a, b) == (a + b - 1) \div b

RECURSIVE Concat(_)
Concat(ss) == IF ss = <<>> THEN <<>> ELSE Head(ss) \o Concat(Tail(ss))

\* C8: M candidates and batch size B (below 1 counts as 1) give exactly
\* ceil(M/B) batches whose concatenation is the input; all but the last hold
\* B items, the last 1..B, no candidate gives no batch; and one remote call
\* is dispatched per batch.
C8_Batches ==
    bPc \in {"gathering", "returned", "raised"} =>
        LET M == Len(candidates_uci)
            B == Max(1, modal_batch_size)
            n == Len(batches)
        IN  /\ n = CeilDiv(M, B)
            /\ Concat(batches) = candidates_uci
            /\ \A j \in 1..(n - 1) : Len(batches[j]) = B
            /\ n > 0 => Len(batches[n]) \in 1..B
            /\ M = 0 => batches = <<>>
            /\ remoteCalls = SubSeq(batches, 1, Len(remoteCalls))
            /\ (\A b \in BatchTasks : batchPc[b] # "created") => remoteCalls = batches

\* ten candidates with batch size 3: sizes 3, 3, 3, 1 and four remote calls
C8_Witness ==
    /\ bPc = "returned"
    /\ Len(candidates_uci) = 10
    /\ modal_batch_size = 3
    /\ [j \in 1..Len(batches) |-> Len(batches[j])] = <<3, 3, 3, 1>>
    /\ Len(remoteCalls) = 4

\* C9: with pairwise distinct candidates and every call returning an entry
\* for each move of its batch, the returned map has exactly the M candidates
\* as keys, each with the data its own batch's call returned, whatever the
\* order the calls completed in.
C9_MergedMap ==
    (/\ bPc = "returned"
     /\ IsDistinct(candidates_uci)
     /\ \A b \in BatchTasks : Range(batches[b]) \subseteq DOMAIN batchRes[b]) =>
        /\ DOMAIN merged = Range(candidates_uci)
        /\ Cardinality(DOMAIN merged) = Len(candidates_uci)
        /\ \A b \in BatchTasks : \A m \in Range(batches[b]) : merged[m] = batchRes[b][m]

\* several batches whose calls completed out of dispatch order
C9_Witness ==
    /\ bPc = "returned"
    /\ IsDistinct(candidates_uci)
    /\ Len(candidates_uci) = 4
    /\ Len(batches) >= 2
    /\ outOfOrder
    /\ \A b \in BatchTasks : Range(batches[b]) \subseteq DOMAIN batchRes[b]
    /\ Cardinality(DOMAIN merged) = 4

\* C10: two batches returning an entry for the same key are never absorbed
\* into a normally returned merged map that keeps only one of the entries.
C10_NoSilentOverwrite ==
    ~(/\ bPc = "returned"
      /\ \E b1, b2 \in BatchTasks :
            /\ b1 # b2
            /\ (DOMAIN batchRes[b1]) \cap (DOMAIN batchRes[b2]) # {})

\* ----------------------------------------------------------- perplexity
\* the non-zero sign last seen at or before index i, 0 when there is none
LastSign(cps, i) ==
    LET nz == {j \in 1..i : cps[j] # 0}
    IN  IF nz = {} THEN 0
        ELSE LET m == CHOOSE j \in nz : \A k \in nz : k <= j
             IN  IF cps[m] > 0 THEN 1 ELSE -1

\* the places where the carried-forward sign changes between two non-zero signs
SignChanges(cps) ==
    {i \in 2..Len(cps) : /\ LastSign(cps, i - 1) # 0
                         /\ LastSign(cps, i) # LastSign(cps, i - 1)}

\* C11: the segmenter returns 1 for an empty or all-zero series, and otherwise
\* the number of maximal runs of equal sign of the series with the last
\* non-zero sign carried over zeros and leading zeros ignored: the number of
\* sign changes plus 1.
C11_Segments ==
    pxPc = "done" =>
        pxSegments = IF \A i \in 1..Len(cps_by_depth) : cps_by_depth[i] = 0
                     THEN 1
                     ELSE Cardinality(SignChanges(cps_by_depth)) + 1

\* signs +,+,+,-,+ give 3
C11_Witness ==
    /\ pxPc = "done"
    /\ [i \in 1..Len(cps_by_depth) |-> sign_bucket(cps_by_depth[i])] = <<1, 1, 1, -1, 1>>
    /\ pxSegments = 3

\* ------------------------------------------------- scores, forced positions
\* C19: a score turned into its signed integer and back keeps its kind
\* (forced mate or centipawn) for mate +1, mate -1, cp -500, cp 0 and cp 500.
RoundTripScores ==
    {MateScore(1), MateScore(-1), CpScore(-500), CpScore(0), CpScore(500)}

C19_RoundTrip ==
    scPc = "restored" =>
        \A i \in 1..Len(sc_top_moves) :
            sc_top_moves[i].score \in RoundTripScores =>
                sc_back[i].type = sc_top_moves[i].score.type

\* a mate and a centipawn score both made the round trip
C19_Witness ==
    /\ scPc = "restored"
    /\ Len(sc_top_moves) = 2
    /\ sc_top_moves[1].score = MateScore(-1)
    /\ sc_top_moves[2].score = CpScore(500)
    /\ sc_back[1].type = "mate"
    /\ sc_back[2].type = "cp"

\* the gap between the signed scores of the top two ranked moves
TopGap(tm) == Abs(score_to_cp(tm[1].score) - score_to_cp(tm[2].score))

\* C20 as stated: forced exactly when there are at least two ranked moves
\* and the gap of the top two is strictly greater than 100.
C20_ForcedStrict ==
    scClassified =>
        (scForced <=> (Len(sc_top_moves) >= 2 /\ TopGap(sc_top_moves) > 100))

\* C20 as amended: forced exactly when there are at least two ranked moves
\* and the gap of the top two is at least 100; fewer than two is not forced.
C20_ForcedAtLeast ==
    scClassified =>
        (scForced <=> (Len(sc_top_moves) >= 2 /\ TopGap(sc_top_moves) >= 100))

\* a gap of exactly 100 with the better move second in signed value
C20_Witness ==
    /\ scClassified
    /\ Len(sc_top_moves) = 2
    /\ sc_top_moves[1].score = CpScore(0)
    /\ sc_top_moves[2].score = CpScore(100)
    /\ scForced

\* C21: whenever one of a position's top two ranked moves has a forced-mate
\* score and the other a centipawn score, the position is classified as
\* forced, for every mate distance of either sign and every centipawn value.
C21_MateGapForced ==
    (scClassified /\ Len(sc_top_moves) >= 2) =>
        LET a == sc_top_moves[1].score.type
            b == sc_top_moves[2].score.type
        IN  ((a = "mate" /\ b = "cp") \/ (a = "cp" /\ b = "mate")) => scForced

\* a mate against the best move's large centipawn score of the same sign, and
\* a centipawn score against a mate in second place
C21_Witness ==
    /\ scClassified
    /\ scForced
    /\ Len(sc_top_moves) = 2
    /\ \/ /\ sc_top_moves[1].score = CpScore(500)
          /\ sc_top_moves[2].score = MateScore(MaxMate)
       \/ /\ sc_top_moves[1].score = MateScore(0 - 1)
          /\ sc_top_moves[2].score = CpScore(0 - 500)

\* ------------------------------------------------- forced-frontier walker
\* The plies of a root's variation that are replayed: the legal moves at its
\* front, up to twice the cap.
ReplayLen(r) ==
    LET pv == best_pv_at_fen[r]
        most == Min(Len(pv), 2 * cap_moves)
    IN  CHOOSE n \in 0..most :
            /\ \A i \in 1..n : pv[i] = Ok
            /\ n = most \/ pv[n + 1] # Ok

\* the target side's moves made from root r before its k-th successor
Consumed(r, k) == Cardinality({j \in 0..(k - 1) : Turn(r + j) = color})

\* the plies along the replayed line of r where the target side is to move
\* and the position is forced
Stops(r) == {k \in 0..ReplayLen(r) : Turn(r + k) = color /\ forced_pv[r + k]}

Earliest(S) == CHOOSE k \in S : \A j \in S : k <= j

\* C12: for every root, replayed variation and target side, the walker returns
\* the number of the target side's moves already made at the earliest position
\* of the replayed line (the root included) where the target side is to move
\* and the position is forced; it is 0 when that position is the root, and a
\* forced position where the other side is to move does not stop the walk.
C12_EarliestForced ==
    walkPc = "returned" =>
        \A i \in 1..Len(fens) :
            Stops(fens[i]) # {} =>
                /\ dists[i] = Consumed(fens[i], Earliest(Stops(fens[i])))
                /\ (0 \in Stops(fens[i]) => dists[i] = 0)

\* a root whose line passes a forced position of the other side and then stops
\* at a later forced position of the target side, after one of its moves
C12_Witness ==
    /\ walkPc = "returned"
    /\ \E i \in 1..Len(fens) :
          /\ Stops(fens[i]) # {}
          /\ Earliest(Stops(fens[i])) = 2
          /\ forced_pv[fens[i] + 1]
          /\ dists[i] = 1

\* C13: the walker returns the cap whenever no position where the target side
\* is to move is forced within the cap's number of that side's moves along the
\* replayed line, the empty and the cut-short variation included.
C13_CapWhenNone ==
    walkPc = "returned" =>
        \A i \in 1..Len(fens) :
            {k \in Stops(fens[i]) : Consumed(fens[i], k) <= cap_moves} = {}
                => dists[i] = cap_moves

\* a root whose variation is cut short by a move that is not legal, with
\* nothing forced for the target side before the cut, and another with no
\* variation at all
C13_Witness ==
    /\ walkPc = "returned"
    /\ \E i, j \in 1..Len(fens) :
          /\ best_pv_at_fen[fens[i]] = <<Ok, Bad, Ok>>
          /\ Stops(fens[i]) = {}
          /\ dists[i] = cap_moves
          /\ best_pv_at_fen[fens[j]] = <<>>
          /\ Stops(fens[j]) = {}
          /\ dists[j] = cap_moves

\* C14: every distance the walker computes is an integer in 0..cap, and it
\* returns exactly one distance per root, in root order: the i-th distance is
\* that of the i-th root.
C14_OnePerRootInRange ==
    walkPc = "returned" =>
        /\ Len(dists) = Len(fens)
        /\ \A i \in 1..Len(fens) :
              /\ dists[i] \in 0..cap_moves
              /\ dists[i] = IF Stops(fens[i]) = {} THEN cap_moves
                            ELSE Consumed(fens[i], Earliest(Stops(fens[i])))

\* the same root given twice, and two roots with different distances
C14_Witness ==
    /\ walkPc = "returned"
    /\ Len(fens) = 2
    /\ \/ fens[1] = fens[2] /\ dists[1] = dists[2] /\ dists[1] < cap_moves
       \/ fens[1] # fens[2] /\ dists[1] = cap_moves /\ dists[2] = 0

\* the line of root r were its whole variation replayed, and a classification
\* that agrees with the walker's where it has one and is b elsewhere
FullLine(r) == collect_pv_fens(r, best_pv_at_fen[r], Len(best_pv_at_fen[r]))

ForcedBeyond(r, b) ==
    [p \in Range(FullLine(r)) |-> IF p \in DOMAIN forced_pv THEN forced_pv[p] ELSE b]

\* C23: the walker replays at most the first 2*C moves of a variation, so at
\* most 2*C + 1 positions per root are visited and classified; the moves at
\* index 2*C or later never change the forced distance, whatever the length
\* of the variation and however the positions they lead to are classified.
C23_TwiceCapPlies ==
    walkPc = "returned" =>
        /\ \A r \in DOMAIN pv_fens_by_root :
              /\ Len(pv_fens_by_root[r]) <= 2 * cap_moves + 1
              /\ Range(pv_fens_by_root[r]) \subseteq r..(r + 2 * cap_moves)
        /\ DOMAIN forced_pv = UNION {Range(pv_fens_by_root[r]) : r \in DOMAIN pv_fens_by_root}
        /\ \A i \in 1..Len(fens) : \A b \in BOOLEAN :
              dists[i] = WalkFrom(FullLine(fens[i]), 1, 0, color, cap_moves,
                                  ForcedBeyond(fens[i], b))

\* a variation of legal moves longer than twice the cap: the replay stops
\* after 2*C of them and the position after the next one is not classified
C23_Witness ==
    /\ walkPc = "returned"
    /\ \E r \in DOMAIN pv_fens_by_root :
          /\ Len(best_pv_at_fen[r]) > 2 * cap_moves
          /\ \A k \in 1..(2 * cap_moves + 1) : best_pv_at_fen[r][k] = Ok
          /\ Len(pv_fens_by_root[r]) = 2 * cap_moves + 1
          /\ (r + 2 * cap_moves + 1) \notin DOMAIN forced_pv

\* the index of the first move of a variation that does not parse or is not
\* legal, 0 when every move is playable
FirstBad(pv) ==
    IF \A k \in 1..Len(pv) : pv[k] = Ok THEN 0
    ELSE CHOOSE k \in 1..Len(pv) : pv[k] # Ok /\ \A j \in 1..(k - 1) : pv[j] = Ok

\* C24: when the replay of a variation meets a move that does not parse or is
\* not legal, it stops at that move and the walker still returns: the
\* positions reached before the move are kept and walked, no position after
\* it is produced, and the distance is C when no kept position is forced with
\* the target side to move.
C24_IllegalMoveTruncates ==
    walkPc = "returned" =>
        \A i \in 1..Len(fens) :
            LET r == fens[i]
                bad == FirstBad(best_pv_at_fen[r])
                kept == [k \in 1..bad |-> r + k - 1]
                hits == {k \in 1..bad : Turn(kept[k]) = color /\ forced_pv[kept[k]]}
            IN  (bad # 0 /\ bad <= 2 * cap_moves) =>
                    /\ pv_fens_by_root[r] = kept
                    /\ Len(dists) = Len(fens)
                    /\ hits = {} => dists[i] = cap_moves
                    /\ hits # {} =>
                          dists[i] = Cardinality({j \in 1..(Earliest(hits) - 1) :
                                                     Turn(kept[j]) = color})

\* a variation cut at its second move, once with the kept position after the
\* first move forced for the target side, once with nothing forced
C24_Witness ==
    /\ walkPc = "returned"
    /\ Len(fens) = 2
    /\ fens[1] # fens[2]
    /\ \A i \in 1..2 : best_pv_at_fen[fens[i]] = <<Ok, Bad, Ok>>
    /\ Turn(fens[1] + 1) = color
    /\ forced_pv[fens[1] + 1]
    /\ dists[1] = 0
    /\ ~forced_pv[fens[2]]
    /\ dists[2] = cap_moves

\* ------------------------------------------------------ build_rhythm_data
SeriesArrays ==
    <<series.ply, series.eval_pawns, series.perplexity_white,
     series.perplexity_black_mirrored, series.forced_dist_white,
     series.forced_dist_black_mirrored, series.time_white_sec,
     series.time_black_sec_mirrored>>

\* C15: for every game of P plies (P = 0 included) and whatever clock data is
\* present or missing, all arrays of the emitted series (ply index, evaluation,
\* perplexity, forced distance and both clock arrays) have the same length
\* P + 1, and the ply array is 0..P.
C15_SameLength ==
    rhPc = "returned" =>
        /\ \A k \in 1..Len(SeriesArrays) : Len(SeriesArrays[k]) = nplies + 1
        /\ \A i \in 1..(nplies + 1) : series.ply[i] = i - 1

\* a game of at least one ply with a clock reading present and another missing
C15_Witness ==
    /\ rhPc = "returned"
    /\ nplies >= 1
    /\ \E i, j \in 1..(nplies + 1) :
          /\ series.time_white_sec[i] = None
          /\ series.time_black_sec_mirrored[j] # None

\* the value emitted at an index by a pair of split arrays: that of the side
\* to move, the other side's entry being null
Emitted(whiteArr, blackArr, i) == IF whiteArr[i] # None THEN whiteArr[i] ELSE blackArr[i]

\* the number of segments of a position's scores, shallow to deep, as the
\* oracle gave them, capped for the series
Magnitude(i) ==
    LET cps == [j \in 1..Len(depths) |->
                   LET tms == by_depth[depths[j]][rh_fens[i]]
                   IN  IF tms = <<>> THEN 0 ELSE score_to_cp(tms[1].score)]
    IN  Min(1 + Cardinality(SignChanges(cps)), SeriesCap)

\* C16: at every ply the perplexity and the forced distance of the side to
\* move are emitted as the magnitude itself when White is to move and as the
\* negated magnitude when Black is; for a game that starts with White to move
\* the emitted perplexity is positive at even ply indices and non-positive at
\* odd ones.
C16_SignConvention ==
    rhPc = "returned" =>
        \A i \in 1..Len(rh_fens) :
            /\ rh_fens[i] % 2 = 0 =>
                  /\ series.perplexity_white[i] = Some(Magnitude(i))
                  /\ series.perplexity_black_mirrored[i] = None
                  /\ series.forced_dist_white[i] = Some(Min(dist_white[i], SeriesCap))
                  /\ series.forced_dist_black_mirrored[i] = None
                  /\ series.forced_dist_white[i][1] >= 0
            /\ rh_fens[i] % 2 = 1 =>
                  /\ series.perplexity_black_mirrored[i] = Some(-Magnitude(i))
                  /\ series.perplexity_white[i] = None
                  /\ series.forced_dist_black_mirrored[i] = Some(-Min(dist_black[i], SeriesCap))
                  /\ series.forced_dist_white[i] = None
                  /\ series.forced_dist_black_mirrored[i][1] <= 0
            /\ rh_start = 0 =>
                  LET e == Emitted(series.perplexity_white,
                                   series.perplexity_black_mirrored, i)[1]
                  IN  IF (i - 1) % 2 = 0 THEN e > 0 ELSE e <= 0

\* a game of two plies from White's move: a perplexity above 1 at a White ply,
\* and a non-zero forced distance at the Black ply
C16_Witness ==
    /\ rhPc = "returned"
    /\ rh_start = 0
    /\ nplies = 2
    /\ \E i \in {1, 3} : series.perplexity_white[i][1] > 1
    /\ series.perplexity_black_mirrored[2][1] < 0
    /\ series.forced_dist_black_mirrored[2][1] < 0
    /\ series.forced_dist_white[1][1] > 0

\* the score of a position's best move at the deepest depth used, as the
\* oracle gave it, White-positive
DeepScore(i) ==
    LET tms == by_depth[depth_max_of(depths)][rh_fens[i]]
    IN  IF tms = <<>> THEN NoScore ELSE tms[1].score

\* C17: every emitted evaluation lies in [-6, 6] pawns: it is the deepest-depth
\* top-move score, unchanged when within [-600, 600] centipawns and replaced by
\* the nearer bound otherwise, so every mate score is emitted as +6 or -6.
C17_EvalClipped ==
    rhPc = "returned" =>
        \A i \in 1..Len(rh_fens) :
            LET e == series.eval_pawns[i]
                sc == DeepScore(i)
                cp == score_to_cp(sc)
            IN  /\ e.den > 0
                /\ -6 * e.den <= e.num /\ e.num <= 6 * e.den
                /\ (-600 <= cp /\ cp <= 600) => e.num * 100 = cp * e.den
                /\ cp > 600 => e.num = 6 * e.den
                /\ cp < -600 => e.num = -6 * e.den
                /\ sc.type = "mate" => e.num = 6 * e.den \/ e.num = -6 * e.den

\* one game with a mate for either side, a score beyond the range and one
\* within it
C17_Witness ==
    /\ rhPc = "returned"
    /\ \E i, j, k \in 1..Len(rh_fens) :
          /\ DeepScore(i).type = "mate" /\ series.eval_pawns[i] = Rat(6, 1)
          /\ DeepScore(j) = CpScore(-700) /\ series.eval_pawns[j] = Rat(-6, 1)
          /\ DeepScore(k) = CpScore(50) /\ series.eval_pawns[k] = Rat(50, 100)

\* ------------------------------------------------------------ gemini_text
Count(tr, ev) == Cardinality({k \in 1..Len(tr) : tr[k] = ev})

\* what holds of the attempts made so far, and of the outcome once there is one
C18_Attempts ==
    /\ Count(gem_trace, "call") <= retries + 1
    /\ \A k \in 1..(Len(gem_trace) - 1) : gem_trace[k] # "ok"
    /\ \A k \in 2..Len(gem_trace) :
          gem_trace[k] = "call" => gem_trace[k - 1] = "sleep" /\ gem_trace[k - 2] = "fail"
    /\ Len(gem_sleeps) = Count(gem_trace, "sleep")
    /\ \A k \in 1..Len(gem_sleeps) : gem_sleeps[k] > 0
    /\ gemPc = "returned" =>
          /\ gem_trace[Len(gem_trace)] = "ok"
          /\ gem_result \in 1..NumTexts
          /\ Count(gem_trace, "fail") = Count(gem_trace, "call") - 1
    /\ gemPc = "raised" =>
          /\ Count(gem_trace, "call") = retries + 1
          /\ Count(gem_trace, "fail") = retries + 1
          /\ Count(gem_trace, "ok") = 0
          /\ gem_errs # <<>> => gem_raised = gem_errs[Len(gem_errs)]

\* C18: gemini_text makes at most retries + 1 attempts of the remote call: it
\* returns the text of the first attempt that succeeds and makes no attempt
\* after it, it waits between a failed attempt and the next one, and when
\* every attempt fails it terminates by raising the error of the last attempt;
\* in every case it comes to an end.
C18_BoundedRetry == [](C18_Attempts) /\ <>(gemPc \in {"returned", "raised"})

\* every attempt has failed, with a last error unlike the first
C18_Witness ==
    /\ gemPc = "raised"
    /\ retries = 2
    /\ Len(gem_errs) = 3
    /\ gem_errs[1] # gem_errs[3]
    /\ gem_raised = gem_errs[3]
    /\ Len(gem_sleeps) = 2

\* the requests for forced classification made so far
ForcedRequests == {k \in 1..Len(rh_requests) : rh_requests[k].kind = "forced"}

\* C22: while one rhythm series is produced, each distinct position visited
\* along the principal variation of any root is submitted for forced
\* classification exactly once, through a single deduplicated batched request
\* made with depth = maximum depth, width = 2 and PV length = 1; no such
\* position is sent for classification a second time.
C22_ClassifiedOnce ==
    /\ \A k \in ForcedRequests :
          /\ rh_requests[k].depth = depth_max_of(depths)
          /\ rh_requests[k].multipv = 2
          /\ rh_requests[k].pv_plies = 1
    /\ \A k \in ForcedRequests : \A p \in rh_requests[k].positions :
          Cardinality({j \in ForcedRequests : p \in rh_requests[j].positions}) = 1
    /\ rhPc = "returned" =>
          \A p \in PvAll(PvFensByRoot(rh_fens, rh_best_pv, RhythmCap)) :
              \E k \in ForcedRequests : p \in rh_requests[k].positions

\* the oracle had no ranked moves for the i-th position of the game: not at
\* any depth, and not in either classification answer
NoDataFor(i) ==
    /\ \A j \in 1..Len(depths) : by_depth[depths[j]][rh_fens[i]] = <<>>
    /\ \A k \in 1..Len(forced_nodata) : rh_fens[i] \in forced_nodata[k]

\* C25: when the oracle returns no data for a position, the series is still
\* produced: the position's score at each such depth is 0, its variation is
\* empty, it is classified as not forced, its forced distance is the cap for
\* both sides, and every other position keeps the scores and the variation
\* the oracle gave for it.
C25_NoDataDegrades ==
    rhPc = "returned" =>
        \A i \in 1..Len(rh_fens) :
            LET f == rh_fens[i]
                deepest == by_depth[depth_max_of(depths)][f]
            IN  /\ \A j \in 1..Len(depths) :
                      LET tms == by_depth[depths[j]][f]
                      IN  best_cp_by_fen[f][j] =
                              IF tms = <<>> THEN 0 ELSE score_to_cp(tms[1].score)
                /\ rh_best_pv[f] = IF deepest = <<>> THEN <<>> ELSE deepest[1].pv_uci
                /\ NoDataFor(i) =>
                      /\ dist_white[i] = RhythmCap
                      /\ dist_black[i] = RhythmCap
                      /\ series.eval_pawns[i] = Rat(0, CpPerPawn)
                      /\ Emitted(series.forced_dist_white,
                                 series.forced_dist_black_mirrored, i)
                             \in {Some(SeriesCap), Some(0 - SeriesCap)}
                /\ Len(series.eval_pawns) = nplies + 1

\* a game of two plies whose middle position came without data while the
\* positions around it have scores, a variation and a forced distance of 0
C25_Witness ==
    /\ rhPc = "returned"
    /\ nplies = 2
    /\ Len(depths) = 2
    /\ NoDataFor(2)
    /\ dist_white[2] = RhythmCap
    /\ \A i \in {1, 3} :
          /\ by_depth[depth_max_of(depths)][rh_fens[i]] # <<>>
          /\ rh_best_pv[rh_fens[i]] # <<>>
          /\ best_cp_by_fen[rh_fens[i]][2] # 0
    /\ dist_white[1] = 0
    /\ dist_black[3] < RhythmCap

\* d is a power of two
IsPow2(d) == \E k \in 0..d : Pow2(k) = d

\* the requests for scores made so far
ScoreRequests == {k \in 1..Len(rh_requests) : rh_requests[k].kind = "scores"}

====
